---- MODULE Spec2Model ----
(***************************************************************************)
(* A model of the arduino-car firmware: the MQTT command receiver          *)
(* (arduino-car.ino), the reasoning gateway and the iterative planning     *)
(* loop (openai_processor), and the robot tools (robot_tools.ino).         *)
(*                                                                         *)
(* Arduino Strings are TLA+ strings; characters are one-character strings  *)
(* and indices are 0-based as in the source.  Time is millis() in ms.      *)
(* Confidence values (float in the source) are kept in hundredths.         *)
(***************************************************************************)
EXTENDS Integers, Sequences, FiniteSets, TLC

(***************************************************************************)
(* Arduino String primitives                                               *)
(***************************************************************************)

MinOf(S) == CHOOSE x \in S : \A y \in S : x <= y

\* String::charAt(i); "" when i is out of range (the source reads '\0')
CharAt(s, i) == IF i >= 0 /\ i < Len(s) THEN SubSeq(s, i + 1, i + 1) ELSE ""

\* String::indexOf(pattern): first 0-based position, -1 when absent
IndexOf(s, p) ==
  LET hits == { i \in 0..(Len(s) - Len(p)) : SubSeq(s, i + 1, i + Len(p)) = p }
  IN  IF hits = {} THEN -1 ELSE MinOf(hits)

Contains(s, p) == IndexOf(s, p) # -1

\* an int handed to an unsigned parameter: a negative value wraps to one above
\* every length
AsUnsigned(s, i) == IF i < 0 THEN Len(s) + 1 ELSE i

\* String::substring(unsigned left, unsigned right): characters left..right-1
Substring(s, left, right) ==
  LET ul == AsUnsigned(s, left)
      ur == AsUnsigned(s, right)
      l == IF ul > ur THEN ur ELSE ul
      r0 == IF ul > ur THEN ul ELSE ur
      r == IF r0 > Len(s) THEN Len(s) ELSE r0
  IN  IF l >= Len(s) THEN "" ELSE SubSeq(s, l + 1, r)

UpperChars == "ABCDEFGHIJKLMNOPQRSTUVWXYZ"
LowerChars == "abcdefghijklmnopqrstuvwxyz"
DigitChars == "0123456789"

\* the decimal digits, and the value of each
DigitSet == { SubSeq(DigitChars, k, k) : k \in 1..Len(DigitChars) }
DigitValues == [c \in DigitSet |-> IndexOf(DigitChars, c)]

IsDigit(c) == c \in DigitSet
\* isspace(): space, \t, \n, \v, \f, \r; a TLA+ string cannot hold \v
IsSpace(c) == c \in {" ", "\n", "\t", "\r", "\f"}
DigitVal(c) == IF c \in DigitSet THEN DigitValues[c] ELSE -1

\* the upper-case letters, and the lower-case letter of each
UpperSet == { SubSeq(UpperChars, k, k) : k \in 1..Len(UpperChars) }
LowerOf ==
  [c \in UpperSet |->
     SubSeq(LowerChars, IndexOf(UpperChars, c) + 1, IndexOf(UpperChars, c) + 1)]

\* tolower(c)
LowerChar(c) == IF c \in UpperSet THEN LowerOf[c] ELSE c

RECURSIVE ToLowerCase(_)
\* String::toLowerCase()
ToLowerCase(s) ==
  IF Len(s) <= 1 THEN LowerChar(s)
  ELSE LET half == Len(s) \div 2
       IN  ToLowerCase(SubSeq(s, 1, half)) \o ToLowerCase(SubSeq(s, half + 1, Len(s)))

RECURSIVE TrimLeft(_)
TrimLeft(s) == IF s # "" /\ IsSpace(SubSeq(s, 1, 1)) THEN TrimLeft(Tail(s)) ELSE s

RECURSIVE TrimRight(_)
TrimRight(s) ==
  IF s # "" /\ IsSpace(SubSeq(s, Len(s), Len(s)))
  THEN TrimRight(SubSeq(s, 1, Len(s) - 1)) ELSE s

\* String::trim()
Trim(s) == TrimRight(TrimLeft(s))

\* the range of long (32 bits)
LONG_MAX == 2147483647
LONG_MIN == (0 - LONG_MAX) - 1

RECURSIVE DigitsValue(_, _)
\* value of the leading run of decimal digits of s, continuing from acc; strtol
\* saturates at LONG_MAX
DigitsValue(s, acc) ==
  IF s # "" /\ IsDigit(SubSeq(s, 1, 1))
  THEN LET d == DigitVal(SubSeq(s, 1, 1))
       IN  IF acc > (LONG_MAX - d) \div 10 THEN LONG_MAX
           ELSE DigitsValue(Tail(s), acc * 10 + d)
  ELSE acc

RECURSIVE DigitsExceed(_, _)
\* the leading run of decimal digits of s, continuing from acc, is above LONG_MAX
DigitsExceed(s, acc) ==
  IF s # "" /\ IsDigit(SubSeq(s, 1, 1))
  THEN LET d == DigitVal(SubSeq(s, 1, 1))
       IN  IF acc > (LONG_MAX - d) \div 10 THEN TRUE
           ELSE DigitsExceed(Tail(s), acc * 10 + d)
  ELSE FALSE

\* String::toInt() (atol): leading white space, optional sign, digits; 0
\* otherwise; a value outside long saturates at LONG_MAX or LONG_MIN
ToInt(s) ==
  LET t == TrimLeft(s)
  IN  IF t = "" THEN 0
      ELSE IF SubSeq(t, 1, 1) = "-"
           THEN IF DigitsExceed(Tail(t), 0) THEN LONG_MIN
                ELSE 0 - DigitsValue(Tail(t), 0)
      ELSE IF SubSeq(t, 1, 1) = "+" THEN DigitsValue(Tail(t), 0)
      ELSE DigitsValue(t, 0)

RECURSIVE NatToStr(_)
NatToStr(n) ==
  IF n < 10 THEN SubSeq(DigitChars, n + 1, n + 1)
  ELSE NatToStr(n \div 10) \o SubSeq(DigitChars, (n % 10) + 1, (n % 10) + 1)

\* String(int)
IntToStr(n) ==
  IF n = LONG_MIN THEN "-2147483648"
  ELSE IF n < 0 THEN "-" \o NatToStr(0 - n) ELSE NatToStr(n)

\* String(float) prints two decimals; c is the confidence in hundredths
ConfToStr(c) ==
  NatToStr(c \div 100) \o "." \o NatToStr((c % 100) \div 10) \o NatToStr(c % 10)

(***************************************************************************)
(* GoalEvaluator: evaluateGoalCompletion                                   *)
(***************************************************************************)

RECURSIVE FirstDigitFrom(_, _)
\* the scan "for (i = distanceStart; i < results.length(); i++)": position of
\* the first digit at or after i, -1 when the scan runs off the end
FirstDigitFrom(s, i) ==
  IF i >= Len(s) THEN -1
  ELSE IF IsDigit(CharAt(s, i)) THEN i
  ELSE FirstDigitFrom(s, i + 1)

RECURSIVE DigitRunEnd(_, _)
\* the inner while loop: first position at or after i that holds no digit
DigitRunEnd(s, i) ==
  IF i < Len(s) /\ IsDigit(CharAt(s, i)) THEN DigitRunEnd(s, i + 1) ELSE i

\* target distance parsed from the objective (lower-cased)
TargetDistance(objective) ==
  LET withinIndex == IndexOf(objective, "within")
      cmIndex == IndexOf(objective, "cm")
  IN  ToInt(Trim(Substring(objective, withinIndex + 6, cmIndex)))

\* the guard of the distance-based branch
ThresholdApplies(objective) ==
  /\ IndexOf(objective, "within") # -1
  /\ IndexOf(objective, "cm") # -1
  /\ IndexOf(objective, "cm") > IndexOf(objective, "within")

HasReadingMarker(results) ==
  IndexOf(results, "distance:") # -1 \/ IndexOf(results, "sonar distance:") # -1

\* position of the first digit after the reading marker, -1 when there is none
ReadingStart(results) ==
  LET d0 == IndexOf(results, "distance:")
      distanceStart == IF d0 = -1 THEN IndexOf(results, "sonar distance:") ELSE d0
  IN  IF distanceStart = -1 THEN -1 ELSE FirstDigitFrom(results, distanceStart)

ActualDistance(results) ==
  LET start == ReadingStart(results)
  IN  ToInt(Substring(results, start, DigitRunEnd(results, start)))

\* the distance-based branch returns true
ThresholdAchieved(objective, results) ==
  /\ ThresholdApplies(objective)
  /\ HasReadingMarker(results)
  /\ ReadingStart(results) # -1
  /\ ActualDistance(results) <= TargetDistance(objective)

UntilAchieved(objective, results) ==
  /\ IndexOf(objective, "until") # -1
  /\ IndexOf(results, "within") # -1
  /\ IndexOf(results, "cm") # -1

\* a halt test that looks at the results only
StopAchievedResultsOnly(objective, context, results) ==
  /\ (IndexOf(objective, "stop") # -1 \/ IndexOf(objective, "halt") # -1)
  /\ IndexOf(results, "stopped") # -1

StopAchieved(objective, context, results) ==
  /\ (IndexOf(objective, "stop") # -1 \/ IndexOf(objective, "halt") # -1)
  /\ (IndexOf(context, "stopped") # -1 \/ IndexOf(results, "stopped") # -1)

evaluateGoalCompletion(sess, latestResults) ==
  LET objective == ToLowerCase(sess.objective)
      context == ToLowerCase(sess.currentContext)
      results == ToLowerCase(latestResults)
  IN  \/ ThresholdAchieved(objective, results)
      \/ UntilAchieved(objective, results)
      \/ StopAchieved(objective, context, results)

\* the status text evaluateGoalCompletion publishes itself ("" when none)
GoalAchievedNotice(sess, latestResults) ==
  LET objective == ToLowerCase(sess.objective)
      results == ToLowerCase(latestResults)
  IN  IF ThresholdAchieved(objective, results)
      THEN "GOAL ACHIEVED! Distance is " \o IntToStr(ActualDistance(results))
           \o "cm, which is within " \o IntToStr(TargetDistance(objective))
           \o "cm target"
      ELSE ""

(***************************************************************************)
(* Program constants                                                       *)
(***************************************************************************)

MAX_ITERATIONS == 10
MAX_PLANNING_TIME == 60000
OPENAI_RATE_LIMIT_MS == 1000
HTTP_TIMEOUT == 10000
MAX_PLANNING_TOOL_CALLS == 5
CONFIDENCE_THRESHOLD == 90
TOOL_CALL_DELAY == 250
ITERATION_DELAY == 500
SONAR_SAMPLES == 5
SONAR_SAMPLE_DELAY == 50
TEST_SAMPLES == 10
TEST_SAMPLE_DELAY == 100
MAX_DISTANCE == 400
LOOP_DELAY == 100
TURN_MS_PER_90 == 600
WIFI_RETRY_DELAY == 500

ROBOT_ID == "arduino_car"

(***************************************************************************)
(* Bounds of the exploration                                               *)
(***************************************************************************)

\* number of environment events beyond the nominal run (nominal: one message
\* after NominalWait, the service answering NominalReply or DirectNominalReply,
\* the sonar seeing NominalPings, both connections staying up)
MaxDeviations == 1

(***************************************************************************)
(* Robot tools (robot_tools.ino)                                           *)
(***************************************************************************)

\* sendMqttMessage: the returned text; it publishes iff the text starts "Message sent"
\* pubok is what client.publish() answers
sendMqttMessage(params, connected, pubok) ==
  IF Len(params) = 0 THEN "Error: No message provided"
  ELSE IF ~connected THEN "Error: MQTT not connected"
  ELSE IF pubok THEN "Message sent: " \o params
  ELSE "Error: Failed to send message"

\* number of status messages n calls of sendMqttMessage (non-empty text) publish
Publishes(n, connected, pubok) == IF connected /\ pubok THEN n ELSE 0

\* a variant that counts a reading of 0 (no echo) as valid
ValidReadingFromZero(reading) == reading >= 0 /\ reading <= MAX_DISTANCE

\* the test getSonarDistance and testSonar apply to each reading
ValidReading(reading) == reading > 0 /\ reading <= MAX_DISTANCE

RECURSIVE ValidReadings(_)
\* the readings[] array getSonarDistance fills: the valid samples, in order
ValidReadings(samples) ==
  IF samples = <<>> THEN <<>>
  ELSE IF ValidReading(Head(samples))
       THEN <<Head(samples)>> \o ValidReadings(Tail(samples))
       ELSE ValidReadings(Tail(samples))

RECURSIVE SumSeq(_)
SumSeq(q) == IF q = <<>> THEN 0 ELSE Head(q) + SumSeq(Tail(q))

\* what a tool call yields: the returned text, the time it blocks, the number of
\* sendMqttMessage calls it makes, the last status text among them, the drive
ToolOutcome(result, duration, notices, notice, drive) ==
  [ result |-> result, duration |-> duration, notices |-> notices,
    notice |-> notice, drive |-> drive ]

\* getSonarDistance(params); pings are the values sonar.ping_cm() returns
getSonarDistance(pings) ==
  LET samples == SubSeq(pings, 1, SONAR_SAMPLES)
      readings == ValidReadings(samples)
      validReadings == Len(readings)
      invalid == Len(samples) - validReadings
      averageDistance == SumSeq(readings) \div validReadings
  IN  IF validReadings = 0
      THEN ToolOutcome("Distance: Out of range (>400cm or no echo)",
                       SONAR_SAMPLES * SONAR_SAMPLE_DELAY,
                       1 + Len(samples) + invalid + 2,
                       "Sonar result: Out of range (>400cm or no echo)", "none")
      ELSE ToolOutcome("Distance: " \o IntToStr(averageDistance) \o " cm (avg of "
                         \o IntToStr(validReadings) \o " readings)",
                       SONAR_SAMPLES * SONAR_SAMPLE_DELAY,
                       1 + Len(samples) + invalid + 2,
                       "Sonar distance: " \o IntToStr(averageDistance) \o " cm (avg of "
                         \o IntToStr(validReadings) \o " readings)", "none")

RECURSIVE SonarReadingNotices(_, _)
\* the texts the for loop of getSonarDistance hands to sendMqttMessage from
\* reading i on: each reading, and a second text for a reading it skips
SonarReadingNotices(samples, i) ==
  IF i > Len(samples) THEN <<>>
  ELSE << "Sonar reading " \o IntToStr(i) \o ": " \o IntToStr(samples[i]) \o " cm" >>
       \o (IF ValidReading(samples[i]) THEN <<>>
           ELSE << "Invalid sonar reading " \o IntToStr(i) \o ": "
                   \o IntToStr(samples[i]) \o " cm (skipped)" >>)
       \o SonarReadingNotices(samples, i + 1)

\* the texts getSonarDistance hands to sendMqttMessage, in order; a delay(50)
\* follows each reading
getSonarDistanceNotices(pings) ==
  LET samples == SubSeq(pings, 1, SONAR_SAMPLES)
      out == getSonarDistance(pings)
  IN  << "Starting sonar distance measurement..." >>
      \o SonarReadingNotices(samples, 1)
      \o << "Sonar measurement complete: " \o IntToStr(Len(ValidReadings(samples)))
            \o "/5 valid readings",
            out.notice >>

\* the pins of the sensor
TRIGGER_PIN == 22
ECHO_PIN == 23

RECURSIVE MinReading(_, _)
\* minReading of testSonar: the least valid reading, from the given start
MinReading(readings, least) ==
  IF readings = <<>> THEN least
  ELSE MinReading(Tail(readings), IF Head(readings) < least THEN Head(readings) ELSE least)

RECURSIVE MaxReading(_, _)
\* maxReading of testSonar: the greatest valid reading, from the given start
MaxReading(readings, most) ==
  IF readings = <<>> THEN most
  ELSE MaxReading(Tail(readings), IF Head(readings) > most THEN Head(readings) ELSE most)

RECURSIVE TestReadingNotices(_, _)
\* the texts the for loop of testSonar hands to sendMqttMessage from reading i on
TestReadingNotices(samples, i) ==
  IF i > Len(samples) THEN <<>>
  ELSE << "Sonar test reading " \o IntToStr(i) \o ": " \o IntToStr(samples[i])
          \o (IF ValidReading(samples[i]) THEN " cm (VALID)" ELSE " cm (INVALID)") >>
       \o TestReadingNotices(samples, i + 1)

\* the texts testSonar hands to sendMqttMessage, in order; a delay(100) follows
\* each reading
testSonarNotices(pings) ==
  LET samples == SubSeq(pings, 1, TEST_SAMPLES)
      readings == ValidReadings(samples)
      validCount == Len(readings)
      invalidCount == Len(samples) - validCount
      minReading == MinReading(readings, MAX_DISTANCE)
      maxReading == MaxReading(readings, 0)
  IN  << "Starting comprehensive sonar sensor test...",
         "Sonar pins: TRIGGER=" \o IntToStr(TRIGGER_PIN) \o ", ECHO=" \o IntToStr(ECHO_PIN)
           \o ", MAX_DIST=" \o IntToStr(MAX_DISTANCE) \o "cm",
         "Taking 10 raw sonar readings for testing..." >>
      \o TestReadingNotices(samples, 1)
      \o << "Sonar test statistics: " \o IntToStr(validCount) \o "/10 valid, "
            \o IntToStr(invalidCount) \o "/10 invalid" >>
      \o (IF validCount > 0
          THEN << "Sonar test results: Min=" \o IntToStr(minReading) \o "cm, Max="
                  \o IntToStr(maxReading) \o "cm, Avg="
                  \o IntToStr(SumSeq(readings) \div validCount) \o "cm, Range="
                  \o IntToStr(maxReading - minReading) \o "cm" >>
          ELSE <<>>)
      \o << "Sonar test complete: " \o IntToStr(validCount) \o "/10 valid readings" >>

\* testSonar(params): ten raw readings, 100 ms apart
testSonar(pings) ==
  LET samples == SubSeq(pings, 1, TEST_SAMPLES)
      validCount == Len(ValidReadings(samples))
      invalidCount == Len(samples) - validCount
  IN  ToolOutcome("Sonar test complete. Valid: " \o IntToStr(validCount)
                    \o "/10, Invalid: " \o IntToStr(invalidCount) \o "/10",
                  TEST_SAMPLES * TEST_SAMPLE_DELAY,
                  3 + Len(samples) + 1 + (IF validCount > 0 THEN 1 ELSE 0) + 1,
                  "Sonar test complete: " \o IntToStr(validCount) \o "/10 valid readings",
                  "none")

\* getEnvironmentInfo(params); signal strength, SSID and free heap are the board's
getEnvironmentInfo(pings, wifi, connected, t) ==
  ToolOutcome("Environment Information:\n========================\n"
                \o "Distance ahead: " \o IntToStr(pings[1]) \o " cm"
                \o (IF wifi THEN "WiFi signal: -50 dBm\nWiFi SSID: home\n"
                            ELSE "WiFi: Not connected\n")
                \o (IF connected THEN "MQTT: Connected\n" ELSE "MQTT: Disconnected\n")
                \o "Uptime: " \o IntToStr(t \div 1000) \o " seconds\n"
                \o "Free memory: 200000 bytes\n",
              0, 6, "Environment information gathering complete", "none")

\* the texts getEnvironmentInfo hands to sendMqttMessage, in order
getEnvironmentInfoNotices(pings, wifi, connected, t) ==
  << "Gathering comprehensive environment information...",
     "Environment distance: " \o IntToStr(pings[1]) \o " cm",
     IF wifi THEN "Environment WiFi: -50 dBm, SSID: home"
             ELSE "Environment WiFi: Not connected",
     IF connected THEN "Environment MQTT: Connected" ELSE "Environment MQTT: Disconnected",
     "Environment system: Uptime " \o IntToStr(t \div 1000)
       \o "s, Free memory 200000 bytes",
     "Environment information gathering complete" >>

\* publishes getEnvironmentInfo has made when it reads client.connected()
ENV_NOTICES_BEFORE_READ == 3

\* duration of a turn given in degrees
TurnDegreesDuration(degrees) == TURN_MS_PER_90 * (degrees \div 90)

\* a degree test that knows the right angle and the half turn only
IsDegreeValueHalfTurn(value) == value \in {90, 180}

IsDegreeValue(value) == value \in {90, 180, 270, 360}

\* digitalWrite levels, and the levels of IN1, IN2, IN3, IN4 in that order
LOW == "LOW"
HIGH == "HIGH"

PinLevels(in1, in2, in3, in4) == <<in1, in2, in3, in4>>

\* after setup(): pinMode(.., OUTPUT) only, the output latches hold their reset
\* value
ResetPins == PinLevels(LOW, LOW, LOW, LOW)

\* stopWheels(): the four writes it makes
stopWheels == PinLevels(LOW, LOW, LOW, LOW)

\* goForward leaving the motors driven: no stopWheels() after the delay
goForwardKeepsDriving == << PinLevels(HIGH, LOW, HIGH, LOW) >>

\* goForward(ms) .. turnRight(ms): the levels written before the delay, and
\* those written after it
goForward == << PinLevels(HIGH, LOW, HIGH, LOW), stopWheels >>

goBackward == << PinLevels(LOW, HIGH, LOW, HIGH), stopWheels >>

turnLeft == << PinLevels(HIGH, LOW, LOW, HIGH), stopWheels >>

turnRight == << PinLevels(LOW, HIGH, HIGH, LOW), stopWheels >>

\* the pin levels one call of a tool writes, in order; drive is the branch of
\* moveCar that was taken
PinWrites(drive) ==
  IF drive = "stop" THEN << stopWheels >>
  ELSE IF drive = "forward" THEN goForward
  ELSE IF drive = "backward" THEN goBackward
  ELSE IF drive = "left" THEN turnLeft
  ELSE IF drive = "right" THEN turnRight
  ELSE << >>

\* the pin levels when the call has returned
PinsAfter(levels, drive) ==
  LET writes == PinWrites(drive)
  IN  IF writes = << >> THEN levels ELSE writes[Len(writes)]

MoveError(text) == ToolOutcome(text, 0, 0, "", "none")

MoveDone(text, ms, dir) == ToolOutcome(text, ms, 0, "", dir)

\* a moveCar that turns away negative magnitudes only
moveCarAcceptsZero(rawParams) ==
  LET params == Trim(rawParams)
      spaceIndex == IndexOf(params, " ")
      command == ToLowerCase(IF spaceIndex # -1 THEN Substring(params, 0, spaceIndex)
                                                ELSE params)
      valueStr == IF spaceIndex # -1 THEN Substring(params, spaceIndex + 1, Len(params))
                                     ELSE ""
      value == ToInt(valueStr)
  IN  IF Len(params) = 0
      THEN MoveError("Error: No movement command provided. Use: forward/backward/left/right/stop + value")
      ELSE IF command = "stop" THEN MoveDone("Car stopped", 0, "stop")
      ELSE IF command = "forward" THEN
        IF Len(valueStr) = 0 THEN MoveError("Error: Forward command requires duration in milliseconds")
        ELSE IF value < 0 THEN MoveError("Error: Duration must be positive")
        ELSE MoveDone("Car moved forward for " \o IntToStr(value) \o "ms", value, "forward")
      ELSE IF command = "backward" THEN
        IF Len(valueStr) = 0 THEN MoveError("Error: Backward command requires duration in milliseconds")
        ELSE IF value < 0 THEN MoveError("Error: Duration must be positive")
        ELSE MoveDone("Car moved backward for " \o IntToStr(value) \o "ms", value, "backward")
      ELSE IF command = "left" THEN
        IF Len(valueStr) = 0 THEN MoveError("Error: Left command requires degrees or duration")
        ELSE IF value < 0 THEN MoveError("Error: Value must be positive")
        ELSE IF IsDegreeValue(value)
             THEN MoveDone("Car turned left " \o IntToStr(value) \o " degrees",
                           TurnDegreesDuration(value), "left")
             ELSE MoveDone("Car turned left for " \o IntToStr(value) \o "ms", value, "left")
      ELSE IF command = "right" THEN
        IF Len(valueStr) = 0 THEN MoveError("Error: Right command requires degrees or duration")
        ELSE IF value < 0 THEN MoveError("Error: Value must be positive")
        ELSE IF IsDegreeValue(value)
             THEN MoveDone("Car turned right " \o IntToStr(value) \o " degrees",
                           TurnDegreesDuration(value), "right")
             ELSE MoveDone("Car turned right for " \o IntToStr(value) \o "ms", value, "right")
      ELSE MoveError("Error: Unknown command '" \o command
                     \o "'. Use: forward/backward/left/right/stop")

\* moveCar(params): result text, time the motors are driven, and the direction
moveCar(rawParams) ==
  LET params == Trim(rawParams)
      spaceIndex == IndexOf(params, " ")
      command == ToLowerCase(IF spaceIndex # -1 THEN Substring(params, 0, spaceIndex)
                                                ELSE params)
      valueStr == IF spaceIndex # -1 THEN Substring(params, spaceIndex + 1, Len(params))
                                     ELSE ""
      value == ToInt(valueStr)
  IN  IF Len(params) = 0
      THEN MoveError("Error: No movement command provided. Use: forward/backward/left/right/stop + value")
      ELSE IF command = "stop" THEN MoveDone("Car stopped", 0, "stop")
      ELSE IF command = "forward" THEN
        IF Len(valueStr) = 0 THEN MoveError("Error: Forward command requires duration in milliseconds")
        ELSE IF value <= 0 THEN MoveError("Error: Duration must be positive")
        ELSE MoveDone("Car moved forward for " \o IntToStr(value) \o "ms", value, "forward")
      ELSE IF command = "backward" THEN
        IF Len(valueStr) = 0 THEN MoveError("Error: Backward command requires duration in milliseconds")
        ELSE IF value <= 0 THEN MoveError("Error: Duration must be positive")
        ELSE MoveDone("Car moved backward for " \o IntToStr(value) \o "ms", value, "backward")
      ELSE IF command = "left" THEN
        IF Len(valueStr) = 0 THEN MoveError("Error: Left command requires degrees or duration")
        ELSE IF value <= 0 THEN MoveError("Error: Value must be positive")
        ELSE IF IsDegreeValue(value)
             THEN MoveDone("Car turned left " \o IntToStr(value) \o " degrees",
                           TurnDegreesDuration(value), "left")
             ELSE MoveDone("Car turned left for " \o IntToStr(value) \o "ms", value, "left")
      ELSE IF command = "right" THEN
        IF Len(valueStr) = 0 THEN MoveError("Error: Right command requires degrees or duration")
        ELSE IF value <= 0 THEN MoveError("Error: Value must be positive")
        ELSE IF IsDegreeValue(value)
             THEN MoveDone("Car turned right " \o IntToStr(value) \o " degrees",
                           TurnDegreesDuration(value), "right")
             ELSE MoveDone("Car turned right for " \o IntToStr(value) \o "ms", value, "right")
      ELSE MoveError("Error: Unknown command '" \o command
                     \o "'. Use: forward/backward/left/right/stop")

ToolNames == {"get_sonar_distance", "move_car", "test_sonar", "get_environment_info",
              "send_mqtt_message"}

\* a lookup that answers an unknown name with an empty result
executeToolSilent(toolName, params, pings, wifi, connected, pubok, t) ==
  IF toolName = "get_sonar_distance" THEN getSonarDistance(pings)
  ELSE IF toolName = "move_car" THEN moveCar(params)
  ELSE IF toolName = "test_sonar" THEN testSonar(pings)
  ELSE IF toolName = "get_environment_info"
       THEN getEnvironmentInfo(pings, wifi, connected, t)
  ELSE IF toolName = "send_mqtt_message"
       THEN ToolOutcome(sendMqttMessage(params, connected, pubok), 0,
                        IF Len(params) = 0 THEN 0 ELSE 1, params, "none")
  ELSE ToolOutcome("", 0, 0, "", "none")

\* executeTool(toolName, params): exact-name lookup in tools[]
executeTool(toolName, params, pings, wifi, connected, pubok, t) ==
  IF toolName = "get_sonar_distance" THEN getSonarDistance(pings)
  ELSE IF toolName = "move_car" THEN moveCar(params)
  ELSE IF toolName = "test_sonar" THEN testSonar(pings)
  ELSE IF toolName = "get_environment_info"
       THEN getEnvironmentInfo(pings, wifi, connected, t)
  ELSE IF toolName = "send_mqtt_message"
       THEN ToolOutcome(sendMqttMessage(params, connected, pubok), 0,
                        IF Len(params) = 0 THEN 0 ELSE 1, params, "none")
  ELSE ToolOutcome("Error: Tool '" \o toolName
                     \o "' not found. Use listTools() to see available tools.",
                   0, 0, "", "none")

\* the texts one call of a tool hands to sendMqttMessage, in order
ToolNotices(toolName, params, pings, wifi, connected, t) ==
  IF toolName = "get_sonar_distance" THEN getSonarDistanceNotices(pings)
  ELSE IF toolName = "test_sonar" THEN testSonarNotices(pings)
  ELSE IF toolName = "get_environment_info"
       THEN getEnvironmentInfoNotices(pings, wifi, connected, t)
  ELSE IF toolName = "send_mqtt_message" /\ Len(params) > 0 THEN <<params>>
  ELSE <<>>

(***************************************************************************)
(* ReasoningGateway (openai_processor): request and response parsing       *)
(***************************************************************************)

DecisionKeys == {"tool_calls", "should_continue", "objective_complete", "reasoning",
                 "next_context"}

\* what deserializeJson makes of the inner content: the keys present and their values
ContentDoc(keys, calls, cont, done, why, ctx) ==
  [ has |-> keys, tool_calls |-> calls, should_continue |-> cont,
    objective_complete |-> done, reasoning |-> why, next_context |-> ctx,
    unknown_commands |-> <<>> ]

\* the inner content in the tool-call format of the direct path
ToolCallDoc(calls, unknown) ==
  [ has |-> {"tool_calls", "unknown_commands"}, tool_calls |-> calls,
    should_continue |-> FALSE, objective_complete |-> FALSE, reasoning |-> "",
    next_context |-> "", unknown_commands |-> unknown ]

EmptyDoc == ContentDoc({}, <<>>, FALSE, FALSE, "", "")

Call(tool, params, confidence) ==
  [tool |-> tool, params |-> params, confidence |-> confidence]

\* a reply of the service as the HTTP client sees it: the response code, the raw
\* body, and what the two deserializeJson calls make of the body
\*   outer: "ok" | "nocontent" | a DeserializationError name
\*   inner: "ok" | a DeserializationError name
Reply(code, text, outer, inner, doc) ==
  [code |-> code, text |-> text, outer |-> outer, inner |-> inner, doc |-> doc]

HttpErrorName(code) ==
  IF code = -1 THEN "HTTPC_ERROR_CONNECTION_REFUSED"
  ELSE IF code = -2 THEN "HTTPC_ERROR_SEND_HEADER_FAILED"
  ELSE IF code = -3 THEN "HTTPC_ERROR_SEND_PAYLOAD_FAILED"
  ELSE IF code = -4 THEN "HTTPC_ERROR_NOT_CONNECTED"
  ELSE IF code = -5 THEN "HTTPC_ERROR_CONNECTION_LOST"
  ELSE IF code = -6 THEN "HTTPC_ERROR_READ_TIMEOUT"
  ELSE IF code = -11 THEN "HTTPC_ERROR_CONNECTION_REFUSED"
  ELSE "Unknown error"

\* the JSON text makeOpenAIRequest builds for its own failures
ErrorResponse(message) ==
  Reply(0, "{\"error\": \"" \o message \o "\"}", "nocontent", "ok", EmptyDoc)

RateLimited(currentTime, last) == currentTime - last < OPENAI_RATE_LIMIT_MS

\* makeOpenAIRequest without its rate-limit test
makeOpenAIRequestUnlimited(currentTime, last, wifi, reply) ==
  IF ~wifi
  THEN [response |-> ErrorResponse("WiFi not connected"), last |-> currentTime,
        sent |-> FALSE]
  ELSE IF reply.code > 0
  THEN [response |-> reply, last |-> currentTime, sent |-> TRUE]
  ELSE [response |-> ErrorResponse("HTTP request failed: " \o IntToStr(reply.code)
                                   \o " (" \o HttpErrorName(reply.code) \o ")"),
        last |-> currentTime, sent |-> TRUE]

\* makeOpenAIRequest with the time stamp taken before the rate-limit test
makeOpenAIRequestStampsFirst(currentTime, last, wifi, reply) ==
  IF RateLimited(currentTime, last)
  THEN [response |-> ErrorResponse("Rate limit exceeded"), last |-> currentTime,
        sent |-> FALSE]
  ELSE IF ~wifi
  THEN [response |-> ErrorResponse("WiFi not connected"), last |-> currentTime,
        sent |-> FALSE]
  ELSE IF reply.code > 0
  THEN [response |-> reply, last |-> currentTime, sent |-> TRUE]
  ELSE [response |-> ErrorResponse("HTTP request failed: " \o IntToStr(reply.code)
                                   \o " (" \o HttpErrorName(reply.code) \o ")"),
        last |-> currentTime, sent |-> TRUE]

\* makeOpenAIRequest(prompt): the response string, the new lastOpenAIRequest,
\* and whether the HTTP request was sent
makeOpenAIRequest(currentTime, last, wifi, reply) ==
  IF RateLimited(currentTime, last)
  THEN [response |-> ErrorResponse("Rate limit exceeded"), last |-> last, sent |-> FALSE]
  ELSE IF ~wifi
  THEN [response |-> ErrorResponse("WiFi not connected"), last |-> currentTime,
        sent |-> FALSE]
  ELSE IF reply.code > 0
  THEN [response |-> reply, last |-> currentTime, sent |-> TRUE]
  ELSE [response |-> ErrorResponse("HTTP request failed: " \o IntToStr(reply.code)
                                   \o " (" \o HttpErrorName(reply.code) \o ")"),
        last |-> currentTime, sent |-> TRUE]

\* the gate with >= in place of >
IsValidConfidenceInclusive(confidence) == confidence >= CONFIDENCE_THRESHOLD

IsValidConfidence(confidence) == confidence > CONFIDENCE_THRESHOLD

ParseToolCall(c) ==
  [ tool |-> c.tool, params |-> c.params, confidence |-> c.confidence,
    isValid |-> IsValidConfidence(c.confidence) ]

MinInt(a, b) == IF a < b THEN a ELSE b

\* a tool_calls loop that keeps every entry of the reply
ParseToolCallsUncapped(doc, cap) ==
  IF "tool_calls" \in doc.has
  THEN [i \in 1..Len(doc.tool_calls) |-> ParseToolCall(doc.tool_calls[i])]
  ELSE <<>>

\* the tool_calls loop of parsePlanningResponse: the first cap entries, in order
ParseToolCalls(doc, cap) ==
  IF "tool_calls" \in doc.has
  THEN [i \in 1..MinInt(Len(doc.tool_calls), cap) |-> ParseToolCall(doc.tool_calls[i])]
  ELSE <<>>

(***************************************************************************)
(* What the reasoning service may answer                                   *)
(***************************************************************************)

EscapeChar(c) ==
  IF c = "\"" THEN "\\\""
  ELSE IF c = "\\" THEN "\\\\"
  ELSE IF c = "\n" THEN "\\n"
  ELSE IF c = "\t" THEN "\\t"
  ELSE IF c = "\r" THEN "\\r"
  ELSE IF c = "\f" THEN "\\f"
  ELSE c

RECURSIVE EscapeChars(_)
EscapeChars(s) ==
  IF Len(s) <= 1 THEN EscapeChar(s)
  ELSE LET half == Len(s) \div 2
       IN  EscapeChars(SubSeq(s, 1, half)) \o EscapeChars(SubSeq(s, half + 1, Len(s)))

\* the characters EscapeChar rewrites
EscapedChars == {"\"", "\\", "\n", "\t", "\r", "\f"}

\* the text of s inside a JSON string literal
JsonEscape(s) ==
  IF \A i \in 1..Len(s) : SubSeq(s, i, i) \notin EscapedChars THEN s
  ELSE EscapeChars(s)

\* the quotation mark of JSON text that stands itself inside `depth` string literals
JsonQuote(depth) == IF depth = 0 THEN "\"" ELSE "\\\""

\* the string s as a JSON string literal inside `depth` string literals
JsonString(s, depth) ==
  LET once == JsonEscape(s)
  IN  JsonQuote(depth)
      \o (IF depth = 0 \/ once = s THEN once ELSE JsonEscape(once))
      \o JsonQuote(depth)

\* a member name (plain letters) as a JSON string literal
JsonKey(key, depth) == JsonQuote(depth) \o key \o JsonQuote(depth)

JsonBool(b) == IF b THEN "true" ELSE "false"

RECURSIVE JsonJoin(_)
\* the members or elements q, separated by commas
JsonJoin(q) ==
  IF q = <<>> THEN ""
  ELSE IF Len(q) = 1 THEN q[1]
  ELSE q[1] \o "," \o JsonJoin(Tail(q))

JsonCall(c, depth) ==
  "{" \o JsonKey("tool", depth) \o ":" \o JsonString(c.tool, depth)
  \o "," \o JsonKey("params", depth) \o ":" \o JsonString(c.params, depth)
  \o "," \o JsonKey("confidence", depth) \o ":" \o ConfToStr(c.confidence) \o "}"

\* the JSON object the service writes for document doc, as it reads inside
\* `depth` string literals: the members present in doc, with their values
DocJsonAt(doc, depth) ==
  LET member(key, value) ==
        IF key \in doc.has THEN <<JsonKey(key, depth) \o ":" \o value>> ELSE <<>>
      calls == [k \in 1..Len(doc.tool_calls) |-> JsonCall(doc.tool_calls[k], depth)]
      unknown == [k \in 1..Len(doc.unknown_commands) |->
                    JsonString(doc.unknown_commands[k], depth)]
  IN  "{" \o JsonJoin(member("tool_calls", "[" \o JsonJoin(calls) \o "]")
                      \o member("should_continue", JsonBool(doc.should_continue))
                      \o member("objective_complete", JsonBool(doc.objective_complete))
                      \o member("reasoning", JsonString(doc.reasoning, depth))
                      \o member("next_context", JsonString(doc.next_context, depth))
                      \o member("unknown_commands", "[" \o JsonJoin(unknown) \o "]"))
      \o "}"

\* the content of a reply: the JSON text of doc
DocJson(doc) == DocJsonAt(doc, 0)

\* the body of a chat completion whose message content is the JSON text of doc:
\* that text as a string literal, JsonEscape(DocJson(doc)) between quotes
OkText(doc) ==
  "{\"choices\":[{\"message\":{\"content\":\"" \o DocJsonAt(doc, 1) \o "\"}}]}"

OkReply(doc) == Reply(200, OkText(doc), "ok", "ok", doc)

SonarCall == Call("get_sonar_distance", "", 98)

NominalReply ==
  OkReply(ContentDoc(DecisionKeys, <<SonarCall>>, TRUE, FALSE,
                     "Measuring distance to find obstacles",
                     "Checking for obstacles in front"))

CompleteReply ==
  OkReply(ContentDoc(DecisionKeys,
                     <<Call("send_mqtt_message", "Nearest obstacle found", 99)>>,
                     TRUE, TRUE, "Nearest obstacle located. Objective achieved!",
                     "Objective complete"))

DoneReply ==
  OkReply(ContentDoc(DecisionKeys, <<Call("move_car", "stop", 99)>>,
                     FALSE, TRUE, "Obstacle located", "Objective complete"))

StopReply ==
  OkReply(ContentDoc(DecisionKeys, <<>>, FALSE, FALSE, "No progress can be made", ""))

\* the service gives up, and says so in words of its own
GiveUpReply ==
  OkReply(ContentDoc(DecisionKeys, <<>>, FALSE, FALSE,
                     "The objective cannot be achieved from here", ""))

\* valid content that carries none of the four decision fields
BareReply ==
  OkReply(ContentDoc({"tool_calls"}, <<SonarCall>>, FALSE, FALSE, "", ""))

GatedReply ==
  OkReply(ContentDoc(DecisionKeys,
                     << Call("move_car", "forward 1000", 89),
                        Call("send_mqtt_message", "Looking around", 91),
                        Call("get_sonar_distance", "", 90) >>,
                     TRUE, FALSE, "Trying low-confidence actions", ""))

\* continues without any action and without a next context
QuietReply ==
  OkReply(ContentDoc({"should_continue", "objective_complete", "reasoning"}, <<>>,
                     TRUE, FALSE, "Waiting", ""))

LongMoveReply ==
  OkReply(ContentDoc(DecisionKeys,
                     << Call("move_car", "forward 60000", 95), SonarCall >>,
                     TRUE, FALSE, "Long approach", "Approaching"))

EchoReply ==
  OkReply(ContentDoc(DecisionKeys,
                     << SonarCall,
                        Call("send_mqtt_message", "Not yet within 20 cm of obstacle", 95) >>,
                     TRUE, FALSE, "Measuring and reporting", "Reporting progress"))

BadOuterReply == Reply(200, "<html>Bad Gateway</html>", "InvalidInput", "ok", EmptyDoc)

NoContentReply == Reply(200, "{\"choices\":[]}", "nocontent", "ok", EmptyDoc)

BadInnerReply ==
  Reply(200, "{\"choices\":[{\"message\":{\"content\":\"I will measure\"}}]}",
        "ok", "InvalidInput", EmptyDoc)

ApiErrorReply ==
  Reply(429, "{\"error\": {\"message\": \"quota exceeded\"}}", "nocontent", "ok", EmptyDoc)

HttpFailedReply == Reply(-1, "", "EmptyInput", "ok", EmptyDoc)

\* the read timeout of the HTTP client: no answer within HTTP_TIMEOUT
TimeoutReply == Reply(-11, "", "EmptyInput", "ok", EmptyDoc)

FailureReplies ==
  { BadOuterReply, NoContentReply, BadInnerReply, ApiErrorReply, HttpFailedReply,
    TimeoutReply }

\* valid content that is the empty object
EmptyReply == OkReply(EmptyDoc)

PlanningReplies ==
  { NominalReply, CompleteReply, DoneReply, StopReply, BareReply, EmptyReply,
    GatedReply, QuietReply, LongMoveReply, EchoReply } \cup FailureReplies

DirectNominalReply ==
  OkReply(ToolCallDoc(<<Call("move_car", "stop", 95)>>, <<>>))

DirectMixedReply ==
  OkReply(ToolCallDoc(<< Call("move_car", "left 90", 85),
                         Call("get_sonar_distance", "", 98) >>,
                      <<"dance", "sing">>))

DirectUnknownReply == OkReply(ToolCallDoc(<<>>, <<"dance">>))

\* the service answers a simple command with the three tools that read the sensor
DirectSenseReply ==
  OkReply(ToolCallDoc(<< Call("get_sonar_distance", "", 98),
                         Call("get_environment_info", "", 97),
                         Call("test_sonar", "", 96) >>, <<>>))

\* the answers to a simple command that count as the expected ones
DirectNominalReplies == {DirectNominalReply, DirectSenseReply}

DirectReplies ==
  DirectNominalReplies \cup {DirectMixedReply, DirectUnknownReply, OkReply(EmptyDoc)}
  \cup FailureReplies

\* the service stops the car and goes on
HaltReply ==
  OkReply(ContentDoc(DecisionKeys, <<Call("move_car", "stop", 95)>>, TRUE, FALSE,
                     "Stopping the car", "Braking"))

\* the service moves the car and words the next context itself
ContextReply ==
  OkReply(ContentDoc(DecisionKeys, <<Call("move_car", "forward 500", 95)>>, TRUE, FALSE,
                     "Moving ahead", "The car has stopped at the wall"))

\* the bodies the service delivers in the runs of the main model
KnownBodies ==
  { r.text : r \in PlanningReplies \cup DirectReplies
                     \cup {GiveUpReply, HaltReply, ContextReply} }

\* response.indexOf("\"error\"") != -1 for each of them, found once
ErrorKeyIn == [text \in KnownBodies |-> IndexOf(text, "\"error\"") # -1]

\* response.indexOf("\"error\"") != -1
HasErrorKey(text) ==
  IF text \in KnownBodies THEN ErrorKeyIn[text] ELSE IndexOf(text, "\"error\"") # -1

\* a failure that leaves should_continue set
FailedDecisionContinues(reasoning) ==
  [ toolCalls |-> <<>>, numToolCalls |-> 0, shouldContinue |-> TRUE,
    objectiveComplete |-> FALSE, reasoning |-> reasoning, nextContext |-> "" ]

FailedDecision(reasoning) ==
  [ toolCalls |-> <<>>, numToolCalls |-> 0, shouldContinue |-> FALSE,
    objectiveComplete |-> FALSE, reasoning |-> reasoning, nextContext |-> "" ]

\* the decision fields with should_continue defaulting to true
ParsedDecisionDefaultsContinue(doc) ==
  LET calls == ParseToolCalls(doc, MAX_PLANNING_TOOL_CALLS)
  IN  [ toolCalls |-> calls,
        numToolCalls |-> Len(calls),
        shouldContinue |-> IF "should_continue" \in doc.has THEN doc.should_continue
                           ELSE TRUE,
        objectiveComplete |-> IF "objective_complete" \in doc.has
                              THEN doc.objective_complete ELSE FALSE,
        reasoning |-> IF "reasoning" \in doc.has THEN doc.reasoning ELSE "",
        nextContext |-> IF "next_context" \in doc.has THEN doc.next_context ELSE "" ]

ParsedDecision(doc) ==
  LET calls == ParseToolCalls(doc, MAX_PLANNING_TOOL_CALLS)
  IN  [ toolCalls |-> calls,
        numToolCalls |-> Len(calls),
        shouldContinue |-> IF "should_continue" \in doc.has THEN doc.should_continue
                           ELSE FALSE,
        objectiveComplete |-> IF "objective_complete" \in doc.has
                              THEN doc.objective_complete ELSE FALSE,
        reasoning |-> IF "reasoning" \in doc.has THEN doc.reasoning ELSE "",
        nextContext |-> IF "next_context" \in doc.has THEN doc.next_context ELSE "" ]

parsePlanningResponse(jsonResponse) ==
  IF HasErrorKey(jsonResponse.text)
  THEN FailedDecision("OpenAI API error: " \o jsonResponse.text)
  ELSE IF jsonResponse.outer \notin {"ok", "nocontent"}
  THEN FailedDecision("JSON parsing failed: " \o jsonResponse.outer)
  ELSE IF jsonResponse.outer = "nocontent"
  THEN FailedDecision("No content found in OpenAI response")
  ELSE IF jsonResponse.inner # "ok"
  THEN FailedDecision("Content JSON parsing failed: " \o jsonResponse.inner)
  ELSE ParsedDecision(jsonResponse.doc)

(***************************************************************************)
(* Direct execution (processWithOpenAI, executeToolCalls)                  *)
(***************************************************************************)

MAX_TOOL_CALLS == 10

OpenAIResult(calls, unknown, success, error) ==
  [ toolCalls |-> calls, numToolCalls |-> Len(calls), unknownCommands |-> unknown,
    success |-> success, error |-> error ]

RECURSIVE JoinUnknownOnto(_, _)
\* the unknown_commands loop from the text accumulated so far: ", " is written
\* before an entry only when that text is not empty
JoinUnknownOnto(q, acc) ==
  IF q = <<>> THEN acc
  ELSE JoinUnknownOnto(Tail(q), (IF Len(acc) > 0 THEN acc \o ", " ELSE acc) \o q[1])

JoinUnknown(q) == JoinUnknownOnto(q, "")

parseOpenAIResponse(jsonResponse) ==
  IF HasErrorKey(jsonResponse.text)
  THEN OpenAIResult(<<>>, "", FALSE, "OpenAI API error: " \o jsonResponse.text)
  ELSE IF jsonResponse.outer \notin {"ok", "nocontent"}
  THEN OpenAIResult(<<>>, "", FALSE, "JSON parsing failed: " \o jsonResponse.outer)
  ELSE IF jsonResponse.outer = "nocontent"
  THEN OpenAIResult(<<>>, "", FALSE, "No content found in OpenAI response")
  ELSE IF jsonResponse.inner # "ok"
  THEN OpenAIResult(<<>>, "", FALSE,
                    "Content JSON parsing failed: " \o jsonResponse.inner)
  ELSE OpenAIResult(ParseToolCalls(jsonResponse.doc, MAX_TOOL_CALLS),
                    IF "unknown_commands" \in jsonResponse.doc.has
                    THEN JoinUnknown(jsonResponse.doc.unknown_commands) ELSE "",
                    TRUE, "")

RECURSIVE LastDigitBefore(_, _)
\* the backward scan of createFallbackResponse: last digit at or before i, -1 if none
LastDigitBefore(s, i) ==
  IF i < 0 THEN -1
  ELSE IF IsDigit(CharAt(s, i)) THEN i
  ELSE LastDigitBefore(s, i - 1)

RECURSIVE DigitRunStart(_, _)
DigitRunStart(s, start) ==
  IF start > 0 /\ IsDigit(CharAt(s, start - 1)) THEN DigitRunStart(s, start - 1)
  ELSE start

\* seconds * 1000 in a 32-bit int, for seconds >= 0.  The overflow is undefined
\* in C++; the build wraps modulo 2^32, computed here on 16-bit halves.
MillisOfSeconds(seconds) ==
  LET hi == seconds \div 65536
      lo == seconds % 65536
      low == lo * 1000
      high == (((hi * 1000) % 65536) + (low \div 65536)) % 65536
  IN  ((IF high >= 32768 THEN high - 65536 ELSE high) * 65536) + (low % 65536)

FallbackDuration(content) ==
  LET secondsIndex == IndexOf(content, "second")
      i == IF secondsIndex = -1 THEN -1 ELSE LastDigitBefore(content, secondsIndex - 1)
  IN  IF i = -1 THEN "1000"
      ELSE IntToStr(MillisOfSeconds(
                      ToInt(Substring(content, DigitRunStart(content, i), i + 1))))

FallbackDirection(content) ==
  IF IndexOf(content, "forward") # -1 THEN "forward"
  ELSE IF IndexOf(content, "backward") # -1 THEN "backward"
  ELSE IF IndexOf(content, "left") # -1 THEN "left"
  ELSE IF IndexOf(content, "right") # -1 THEN "right"
  ELSE IF IndexOf(content, "stop") # -1 THEN "stop"
  ELSE ""

\* createFallbackResponse(content)
createFallbackResponse(rawContent) ==
  LET content == ToLowerCase(rawContent)
  IN  IF FallbackDirection(content) # ""
      THEN OpenAIResult(
             << [ tool |-> "move_car",
                  params |-> FallbackDirection(content) \o " " \o FallbackDuration(content),
                  confidence |-> 80, isValid |-> TRUE ] >>,
             rawContent, TRUE, "OpenAI API unavailable - using fallback response")
      ELSE IF IndexOf(content, "distance") # -1 \/ IndexOf(content, "measure") # -1
      THEN OpenAIResult(
             << [ tool |-> "get_sonar_distance", params |-> "", confidence |-> 90,
                  isValid |-> TRUE ] >>,
             rawContent, TRUE, "OpenAI API unavailable - using fallback response")
      ELSE OpenAIResult(<<>>, rawContent, FALSE,
                        "OpenAI API unavailable - using fallback response")

\* processWithOpenAI(content), given the outcome of the connectivity test and
\* the response of makeOpenAIRequest
processWithOpenAI(content, online, response) ==
  LET result == parseOpenAIResponse(response)
  IN  IF ~online THEN createFallbackResponse(content)
      ELSE IF ~result.success /\ IndexOf(result.error, "HTTP request failed") # -1
      THEN createFallbackResponse(content)
      ELSE result

\* what executeToolCalls returns before its loop, "" when the loop runs
DirectEarlyResult(result) ==
  IF ~result.success THEN "Error: " \o result.error
  ELSE IF result.numToolCalls = 0
  THEN IF Len(result.unknownCommands) > 0
       THEN "No valid tool calls found. Unknown commands: " \o result.unknownCommands
       ELSE "No tool calls to execute"
  ELSE ""

DirectHeader(result) ==
  "Executing " \o IntToStr(result.numToolCalls) \o " tool calls:\n"

DirectTrailer(result) ==
  IF Len(result.unknownCommands) > 0
  THEN "\nUnknown commands: " \o result.unknownCommands ELSE ""

(***************************************************************************)
(* PlanningLoop helpers                                                    *)
(***************************************************************************)

NewSession(objective, t) ==
  [ objective |-> objective,
    currentContext |-> "Starting fresh. Objective: " \o objective,
    executionHistory |-> "",
    iterationCount |-> 0,
    isComplete |-> FALSE,
    finalResult |-> "",
    startTime |-> t,
    lastIterationTime |-> t ]

NoDecision == FailedDecision("")

\* the while condition without its iteration cap
LoopGuardNoCap(sess, t) ==
  /\ ~sess.isComplete
  /\ (t - sess.startTime) < MAX_PLANNING_TIME

\* the while condition without its time budget
LoopGuardNoBudget(sess, t) ==
  /\ ~sess.isComplete
  /\ sess.iterationCount < MAX_ITERATIONS

\* the while condition of executeIterativePlanning
LoopGuard(sess, t) ==
  /\ ~sess.isComplete
  /\ sess.iterationCount < MAX_ITERATIONS
  /\ (t - sess.startTime) < MAX_PLANNING_TIME

SkipLine(call) ==
  "Skipping " \o call.tool \o " (confidence: " \o ConfToStr(call.confidence)
  \o " < 0.9)\n"

ResultLine(i, call, toolResult) ==
  "[" \o IntToStr(i + 1) \o "] " \o call.tool \o ": " \o toolResult \o "\n"

\* a history block that leaves the reasoning out
HistoryBlockNoReasoning(sess, dec, results) ==
  (IF Len(sess.executionHistory) > 0 THEN "\n" ELSE "")
  \o "--- Iteration " \o IntToStr(sess.iterationCount) \o " ---\n"
  \o results

\* the history block updatePlanningSession appends
HistoryBlock(sess, dec, results) ==
  (IF Len(sess.executionHistory) > 0 THEN "\n" ELSE "")
  \o "--- Iteration " \o IntToStr(sess.iterationCount) \o " ---\n"
  \o "Reasoning: " \o dec.reasoning \o "\n"
  \o results

NextContext(sess, dec) ==
  IF Len(dec.nextContext) > 0 THEN dec.nextContext
  ELSE "Completed iteration " \o IntToStr(sess.iterationCount) \o ". "
       \o sess.currentContext

\* an update that keeps the block of the last iteration only
updatePlanningSessionLastOnly(sess, dec, results) ==
  LET replaced == [sess EXCEPT !.executionHistory =
                     HistoryBlock([sess EXCEPT !.executionHistory = ""], dec, results)]
      goalAchieved == evaluateGoalCompletion(replaced, results)
      judged == IF goalAchieved
                THEN [replaced EXCEPT !.isComplete = TRUE,
                        !.finalResult = "Objective achieved based on goal evaluation"]
                ELSE replaced
  IN  [judged EXCEPT !.currentContext = NextContext(sess, dec)]

\* updatePlanningSession(session, decision, executionResults)
updatePlanningSession(sess, dec, results) ==
  LET appended == [sess EXCEPT !.executionHistory = @ \o HistoryBlock(sess, dec, results)]
      goalAchieved == evaluateGoalCompletion(appended, results)
      judged == IF goalAchieved
                THEN [appended EXCEPT !.isComplete = TRUE,
                        !.finalResult = "Objective achieved based on goal evaluation"]
                ELSE appended
  IN  [judged EXCEPT !.currentContext = NextContext(sess, dec)]

\* a budget branch that is not guarded by !isComplete
FinalResultOverwrites(sess) ==
  IF sess.iterationCount >= MAX_ITERATIONS
  THEN "Planning stopped: Maximum iterations reached (" \o IntToStr(MAX_ITERATIONS) \o ")"
  ELSE "Planning stopped: Time limit reached"

\* a budget branch that names the iteration cap whichever budget ran out
FinalResultNamesCap(sess) ==
  IF sess.isComplete THEN sess.finalResult
  ELSE "Planning stopped: Maximum iterations reached (" \o IntToStr(MAX_ITERATIONS) \o ")"

\* the budget branch after the loop
FinalResult(sess) ==
  IF sess.isComplete THEN sess.finalResult
  ELSE IF sess.iterationCount >= MAX_ITERATIONS
  THEN "Planning stopped: Maximum iterations reached (" \o IntToStr(MAX_ITERATIONS) \o ")"
  ELSE "Planning stopped: Time limit reached"

\* a variant whose text leaves the elapsed time out
SummaryWithoutTime(sess, t) ==
  "=== ITERATIVE PLANNING COMPLETE ===\n"
  \o "Objective: " \o sess.objective \o "\n"
  \o "Iterations: " \o IntToStr(sess.iterationCount) \o "\n"
  \o "Final result: " \o sess.finalResult \o "\n"
  \o "Execution history:\n" \o sess.executionHistory

\* the text executeIterativePlanning returns
Summary(sess, t) ==
  "=== ITERATIVE PLANNING COMPLETE ===\n"
  \o "Objective: " \o sess.objective \o "\n"
  \o "Iterations: " \o IntToStr(sess.iterationCount) \o "\n"
  \o "Total time: " \o IntToStr((t - sess.startTime) \div 1000) \o " seconds\n"
  \o "Final result: " \o sess.finalResult \o "\n"
  \o "Execution history:\n" \o sess.executionHistory

\* the party popper U+1F389 that opens the success notice.  A TLA+ string holds
\* ASCII only: the four bytes of its UTF-8 encoding are written as escapes.
PartyPopper == "\\xF0\\x9F\\x8E\\x89"

FinalNotice(sess, t) ==
  (IF sess.isComplete /\ IndexOf(sess.finalResult, "achieved") # -1
   THEN PartyPopper \o " SUCCESS: Planning completed successfully! "
   ELSE "Planning complete: ")
  \o IntToStr(sess.iterationCount) \o " iterations, "
  \o IntToStr((t - sess.startTime) \div 1000) \o " seconds - " \o sess.finalResult

(***************************************************************************)
(* CommandRouter (arduino-car.ino)                                         *)
(***************************************************************************)

ComplexKeywords ==
  { "explore", "find", "search", "navigate", "avoid", "reach", "locate", "discover",
    "investigate", "map", "survey", "patrol", "monitor", "follow", "track", "chase",
    "escape", "hide", "seek" }

ConditionalWords == {"if", "when", "until", "while", "then"}

Conjunctions == {" and ", " or ", " but "}

isComplexObjective(command) ==
  LET c == ToLowerCase(command)
  IN  \E k \in ComplexKeywords \cup ConditionalWords \cup Conjunctions : IndexOf(c, k) # -1

MessageKeys == {"robot_id", "content", "sender", "id"}

\* an inbound MQTT payload as deserializeJson sees it
Message(parses, keys, robotId, content) ==
  [has |-> keys, content |-> content, parses |-> parses, robot_id |-> robotId]

\* the self test made on the sender field instead of robot_id
IsSelfMessageBySender(m) == "sender" \in m.has /\ m.robot_id = ROBOT_ID

\* the test "from the robot itself" of callback
IsSelfMessage(m) == "robot_id" \in m.has /\ m.robot_id = ROBOT_ID

\* a content test that any key satisfies
HasContentLoose(m) == m.has # {}

\* doc.containsKey("content")
HasContent(m) == "content" \in m.has

\* sendStatusMessage with no robot_id in its document
StatusJsonAnonymous(text) == Message(TRUE, {"status", "timestamp"}, "", "")

\* the document sendStatusMessage(text) serialises: robot_id, status, timestamp
StatusJson(text) == Message(TRUE, {"robot_id", "status", "timestamp"}, ROBOT_ID, "")

\* the document sendMqttMessage(params) serialises: robot_id, message_type,
\* content, timestamp
MqttJson(params) ==
  Message(TRUE, {"robot_id", "message_type", "content", "timestamp"}, ROBOT_ID, params)

\* what the broker hands back to a subscriber of MQTT_TOPIC after the robot has
\* published text there, by either publisher
OwnOutput(text) == { StatusJson(text), MqttJson(text) }

(***************************************************************************)
(* Environment: what the broker, the service and the sensor may deliver    *)
(***************************************************************************)

Commands ==
  { "find the nearest obstacle",
    "move forward until within 20cm of obstacle",
    " stop " }

Messages ==
  { Message(FALSE, {}, "", ""),
    Message(TRUE, {"robot_id"}, ROBOT_ID, ""),
    Message(TRUE, {"robot_id", "content"}, ROBOT_ID, "find the nearest obstacle"),
    Message(TRUE, {"sender", "id"}, "", ""),
    Message(TRUE, {"robot_id", "content"}, "other_car", "find the nearest obstacle") }
  \cup { Message(TRUE, {"content", "sender", "id"}, "", c) : c \in Commands }

\* idle time before client.loop() has a message: many passes of loop(), or none
NominalWait == 50 * LOOP_DELAY
IdleWaits == {NominalWait, 0}

\* how long http.POST blocks: the service answers promptly or not at all
NominalLatency == 3 * LOOP_DELAY
ReplyLatency(reply) == IF reply = TimeoutReply THEN HTTP_TIMEOUT ELSE NominalLatency

Pings(v) == [i \in 1..TEST_SAMPLES |-> v]

NominalPings == Pings(25)

SonarStreams == {NominalPings, Pings(15), Pings(0)}

\* actions a batch is made of: a name that is in no registry, a move without its
\* duration, a measurement and a well-formed move
BatchCalls ==
  { Call("fly", "up", 95), Call("move_car", "forward", 95), SonarCall,
    Call("move_car", "forward 500", 95) }

BatchReply(calls) ==
  OkReply(ContentDoc(DecisionKeys, calls, TRUE, FALSE, "Trying a batch of actions",
                     "Batch under way"))

\* decisions that continue with every batch of these actions, from one action to
\* as many as parsePlanningResponse keeps
BatchReplies ==
  { BatchReply(calls) :
      calls \in UNION { [1..n -> BatchCalls] : n \in 1..MAX_PLANNING_TOOL_CALLS } }

\* actions with confidences on both sides of the gate: two accepted ones, one
\* exactly at 0.9 and one far below
GateCalls ==
  { SonarCall, Call("move_car", "forward 500", 95), Call("move_car", "stop", 90),
    Call("get_sonar_distance", "", 50) }

\* decisions that continue with every batch of these actions
GateReplies ==
  { BatchReply(calls) :
      calls \in UNION { [1..n -> GateCalls] : n \in 1..MAX_PLANNING_TOOL_CALLS } }

\* the most actions the service lists in one reply
MaxListed == 7

\* decisions that continue and list from four to MaxListed actions, each a
\* measurement or a short move
ListedReplies ==
  { BatchReply(calls) :
      calls \in UNION { [1..n -> {SonarCall, Call("move_car", "forward 500", 95)}] :
                          n \in 4..MaxListed } }

\* the most movements in one batch of the movement runs
MaxMoves == 2

\* parameters of move_car: every branch of moveCar, the error returns among them
MoveParams ==
  { "", "forward", "forward 0", "backward -5", "fly 100", "left abc", "stop",
    " Forward 500 ", "backward 300", "left 90", "left 250", "right 180", "right",
    "left 270", "right 45", "right 360" }

\* decisions that continue with a batch of movements
MoveReplies ==
  { BatchReply(calls) :
      calls \in UNION { [1..n -> { Call("move_car", p, 95) : p \in MoveParams }] :
                          n \in 1..MaxMoves } }

\* raw samples of one measurement: no echo, three close ranges, the last value
\* in range and the first beyond it
SampleValues == {0, 10, 11, 12, MAX_DISTANCE, MAX_DISTANCE + 1}

\* every mix of the sample values over the readings of getSonarDistance
SampleStreams ==
  { [i \in 1..TEST_SAMPLES |-> IF i <= SONAR_SAMPLES THEN f[i] ELSE 25] :
      f \in [1..SONAR_SAMPLES -> SampleValues] }

(***************************************************************************)
(* State                                                                   *)
(***************************************************************************)

VARIABLES
  now,                \* millis()
  lastOpenAIRequest,  \* time of the last request that passed the rate limit
  wifiConnected,      \* WiFi.status() == WL_CONNECTED
  mqttConnected,      \* client.connected()
  publishOk,          \* client.publish() succeeds while connected
  pc,                 \* where the single thread of control is
  msg,                \* the inbound message the callback handles or handled last
  command,            \* the argument of executeCommand, trimmed
  session,            \* the PlanningSession of executeIterativePlanning
  decision,           \* the PlanningDecision of the present iteration
  openaiResult,       \* the OpenAIResult of the direct path
  toolIndex,          \* i of the loop over toolCalls
  executionResults,   \* the results text being built
  executed,           \* the calls of executeTool in this batch: index i + 1, when,
                      \* and what sonar.ping_cm() returned during the call
  lastResult,         \* what executeCommand returned last
  published,          \* messages published on MQTT_TOPIC so far
  lastStatus,         \* text of the last one
  delivered,          \* messages handed to callback so far
  commandsRun,        \* calls of executeCommand so far
  replies,            \* what makeOpenAIRequest returned, call by call, in the present command
  sent,               \* HTTP replies sent in the present command
  deviations,         \* environment events beyond the nominal run so far
  pins,               \* levels of the motor pins IN1..IN4
  payload,            \* the instruction text the legacy sketch downloaded
  in,                 \* the argument of tokenize, as its loop rewrites it
  routed,             \* the calls of parse_and_route so far
  lpc                 \* where the legacy sketch is

vars ==
  << now, lastOpenAIRequest, wifiConnected, mqttConnected, publishOk, pc, msg, command, session,
     decision, openaiResult, toolIndex, executionResults, executed, lastResult,
     published, lastStatus, delivered, commandsRun, replies, sent, deviations,
     pins, payload, in, routed, lpc >>

legacyVars == <<payload, in, routed, lpc>>

\* calls of makeOpenAIRequest in the present command, and what the last returned
requests == Len(replies)
response == replies[Len(replies)]

envVars == <<wifiConnected, mqttConnected>>
runVars == <<session, decision, openaiResult, toolIndex, executionResults, executed>>

NoResult == OpenAIResult(<<>>, "", FALSE, "")
NoMessage == Message(FALSE, {}, "", "")

Cost(isNominal) == IF isNominal THEN 0 ELSE 1

\* passes of the wait loop of setupWiFi before WiFi.status() is WL_CONNECTED
NominalRetries == 1
WifiRetries == {0, NominalRetries, 3}

\* setup() has returned: WiFi is associated after some passes of the wait loop,
\* MQTT is not yet connected
Init ==
  /\ \E retries \in WifiRetries :
       /\ now = retries * WIFI_RETRY_DELAY
       /\ deviations = Cost(retries = NominalRetries)
  /\ lastOpenAIRequest = 0
  /\ wifiConnected = TRUE
  /\ mqttConnected = FALSE
  /\ pc = "idle"
  /\ msg = NoMessage
  /\ command = ""
  /\ session = NewSession("", 0)
  /\ decision = NoDecision
  /\ openaiResult = NoResult
  /\ toolIndex = 0
  /\ executionResults = ""
  /\ executed = <<>>
  /\ lastResult = ""
  /\ published = 0
  /\ lastStatus = ""
  /\ delivered = 0
  /\ commandsRun = 0
  /\ replies = <<>>
  /\ sent = 0
  /\ publishOk = TRUE
  /\ pins = ResetPins
  /\ payload = ""
  /\ in = ""
  /\ routed = <<>>
  /\ lpc = "setup"

\* sendStatusMessage / sendMqttMessage called with each of texts in turn, plus
\* extra calls made inside a tool
Publish(texts, extra) ==
  /\ published' = published + Publishes(Len(texts) + extra, mqttConnected, publishOk)
  /\ lastStatus' = IF mqttConnected /\ publishOk /\ texts # <<>>
                   THEN texts[Len(texts)]
                   ELSE lastStatus

(***************************************************************************)
(* loop(), reconnect() and callback()                                      *)
(***************************************************************************)

\* reconnect() waits this long after a client.connect that failed
RECONNECT_DELAY == 5000

\* calls of client.connect that fail before one succeeds
ConnectFailures == {0, 1, 2}

\* reconnect(): client.connect fails `failures` times, then succeeds; subscribe,
\* announce.  It returns into loop(), which calls client.loop() next, at the
\* same instant
Reconnect(failures) ==
  /\ pc = "idle"
  /\ ~mqttConnected
  /\ deviations + Cost(failures = 0) <= MaxDeviations
  /\ deviations' = deviations + Cost(failures = 0)
  /\ mqttConnected' = TRUE
  /\ published' = published + Publishes(1, TRUE, publishOk)
  /\ lastStatus' = IF publishOk THEN "Robot connected and ready to receive commands"
                   ELSE lastStatus
  /\ now' = now + failures * RECONNECT_DELAY
  /\ UNCHANGED << legacyVars, publishOk, pins, lastOpenAIRequest, wifiConnected, pc, msg, command, runVars,
                  lastResult, delivered, commandsRun, replies, sent >>

\* executeCommand(content) up to the first blocking call
StartCommand(content) ==
  LET cmd == Trim(content)
  IN  /\ command' = cmd
      /\ commandsRun' = commandsRun + 1
      /\ replies' = <<>>
      /\ sent' = 0
      /\ IF isComplexObjective(cmd)
         THEN /\ pc' = "while"
              /\ session' = NewSession(cmd, now')
              /\ Publish(<<"Starting iterative planning for objective: " \o cmd>>, 0)
         ELSE /\ pc' = "direct"
              /\ UNCHANGED <<session, published, lastStatus>>

\* the first message after the usual idle time is the expected arrival; a message
\* that waits in the client's buffer, or a later one, is one deviation
ArrivalCost(wait) == IF delivered = 0 THEN Cost(wait = NominalWait) ELSE 1

\* a callback that the client could enter while a command is being executed
CallbackDuringRun(m, wait) ==
  /\ mqttConnected
  /\ deviations + ArrivalCost(wait) <= MaxDeviations
  /\ deviations' = deviations + ArrivalCost(wait)
  /\ delivered' = delivered + 1
  /\ msg' = m
  /\ now' = now + wait
            + (IF m.parses /\ ~IsSelfMessage(m) /\ HasContent(m) THEN 0 ELSE LOOP_DELAY)
  /\ IF ~m.parses
     THEN /\ Publish(<<"Error: Invalid JSON format">>, 0)
          /\ UNCHANGED <<pc, command, session, commandsRun, replies, sent>>
     ELSE IF IsSelfMessage(m)
     THEN UNCHANGED << pc, command, session, commandsRun, replies, sent, published,
                       lastStatus >>
     ELSE IF ~HasContent(m)
     THEN /\ Publish(<<"Error: No 'content' field in JSON">>, 0)
          /\ UNCHANGED <<pc, command, session, commandsRun, replies, sent>>
     ELSE StartCommand(m.content)
  /\ UNCHANGED << legacyVars, publishOk, pins, lastOpenAIRequest, envVars, decision, openaiResult,
                  toolIndex, executionResults, executed, lastResult >>

\* client.loop() hands message m to callback after wait ms of idle passes of
\* loop(); a message that starts no command is dealt with at once, and loop()
\* ends its pass with delay(100)
Callback(m, wait) ==
  /\ pc = "idle"
  /\ mqttConnected
  /\ deviations + ArrivalCost(wait) <= MaxDeviations
  /\ deviations' = deviations + ArrivalCost(wait)
  /\ delivered' = delivered + 1
  /\ msg' = m
  /\ now' = now + wait
            + (IF m.parses /\ ~IsSelfMessage(m) /\ HasContent(m) THEN 0 ELSE LOOP_DELAY)
  /\ IF ~m.parses
     THEN /\ Publish(<<"Error: Invalid JSON format">>, 0)
          /\ UNCHANGED <<pc, command, session, commandsRun, replies, sent>>
     ELSE IF IsSelfMessage(m)
     THEN UNCHANGED << pc, command, session, commandsRun, replies, sent, published,
                       lastStatus >>
     ELSE IF ~HasContent(m)
     THEN /\ Publish(<<"Error: No 'content' field in JSON">>, 0)
          /\ UNCHANGED <<pc, command, session, commandsRun, replies, sent>>
     ELSE StartCommand(m.content)
  /\ UNCHANGED << legacyVars, publishOk, pins, lastOpenAIRequest, envVars, decision, openaiResult,
                  toolIndex, executionResults, executed, lastResult >>

\* the end of callback: the result goes out as a status message, and loop()
\* ends its pass with delay(100)
Respond ==
  /\ pc = "respond"
  /\ pc' = "idle"
  /\ now' = now + LOOP_DELAY
  /\ Publish(<<"Command executed: " \o msg.content \o " | Result: " \o lastResult>>, 0)
  /\ UNCHANGED << legacyVars, publishOk, pins, lastOpenAIRequest, envVars, msg, command, runVars, lastResult,
                  delivered, commandsRun, replies, sent, deviations >>

(***************************************************************************)
(* executeIterativePlanning                                                *)
(***************************************************************************)

\* the while test and the head of the loop body
LoopTop ==
  /\ pc = "while"
  /\ IF LoopGuard(session, now)
     THEN /\ session' = [session EXCEPT !.iterationCount = @ + 1,
                                        !.lastIterationTime = now]
          /\ Publish(<<"Starting iteration " \o IntToStr(session.iterationCount + 1)
                       \o " - Context: " \o session.currentContext>>, 0)
          /\ pc' = "decide"
     ELSE /\ pc' = "finish"
          /\ UNCHANGED <<session, published, lastStatus>>
  /\ UNCHANGED << legacyVars, publishOk, pins, now, lastOpenAIRequest, envVars, msg, command, decision, openaiResult, toolIndex, executionResults, executed, lastResult,
                  delivered, commandsRun, replies, sent, deviations >>

\* the loop body without its test of objectiveComplete
DecideWithoutCompleteTest(reply) ==
  LET req == makeOpenAIRequest(now, lastOpenAIRequest, wifiConnected, reply)
      dec == parsePlanningResponse(req.response)
      latency == ReplyLatency(reply)
      cost == IF req.sent THEN Cost(reply = NominalReply) ELSE 0
  IN  /\ pc = "decide"
      /\ req.sent \/ reply = NominalReply
      /\ deviations + cost <= MaxDeviations
      /\ deviations' = deviations + cost
      /\ replies' = Append(replies, req.response)
      /\ sent' = sent + (IF req.sent THEN 1 ELSE 0)
      /\ lastOpenAIRequest' = req.last
      /\ now' = now + (IF req.sent THEN latency ELSE 0)
      /\ decision' = dec
      /\ toolIndex' = 0
      /\ executed' = <<>>
      /\ IF ~dec.shouldContinue
         THEN /\ Publish(<<"Planning decision: Stop planning - " \o dec.reasoning>>, 0)
              /\ session' = [session EXCEPT !.isComplete = TRUE,
                                            !.finalResult = dec.reasoning]
              /\ pc' = "finish"
              /\ UNCHANGED executionResults
         ELSE /\ Publish(<<"Planning decision: " \o IntToStr(dec.numToolCalls)
                           \o " tool calls - " \o dec.reasoning>>, 0)
              /\ UNCHANGED session
              /\ IF dec.numToolCalls = 0
                 THEN /\ executionResults' = "No tool calls to execute in this iteration"
                      /\ pc' = "update"
                 ELSE /\ executionResults' = "Iteration tool calls:\n"
                      /\ pc' = "tools"
      /\ UNCHANGED << legacyVars, publishOk, pins, envVars, msg, command, openaiResult, lastResult, delivered,
                      commandsRun >>

\* a loop body that folds a decision to stop into the session before it leaves
DecideStopRecords(reply) ==
  LET req == makeOpenAIRequest(now, lastOpenAIRequest, wifiConnected, reply)
      dec == parsePlanningResponse(req.response)
      latency == ReplyLatency(reply)
      cost == IF req.sent THEN Cost(reply = NominalReply) ELSE 0
  IN  /\ pc = "decide"
      /\ req.sent \/ reply = NominalReply
      /\ deviations + cost <= MaxDeviations
      /\ deviations' = deviations + cost
      /\ replies' = Append(replies, req.response)
      /\ sent' = sent + (IF req.sent THEN 1 ELSE 0)
      /\ lastOpenAIRequest' = req.last
      /\ now' = now + (IF req.sent THEN latency ELSE 0)
      /\ decision' = dec
      /\ toolIndex' = 0
      /\ executed' = <<>>
      /\ IF ~dec.shouldContinue
         THEN /\ Publish(<<"Planning decision: Stop planning - " \o dec.reasoning>>, 0)
              /\ session' = [updatePlanningSession(session, dec, "")
                               EXCEPT !.isComplete = TRUE,
                                      !.finalResult = dec.reasoning]
              /\ pc' = "finish"
              /\ UNCHANGED executionResults
         ELSE IF dec.objectiveComplete
         THEN /\ Publish(<<"Planning decision: Objective complete - " \o dec.reasoning>>, 0)
              /\ session' = [session EXCEPT !.isComplete = TRUE,
                                            !.finalResult = dec.reasoning]
              /\ pc' = "finish"
              /\ UNCHANGED executionResults
         ELSE /\ Publish(<<"Planning decision: " \o IntToStr(dec.numToolCalls)
                           \o " tool calls - " \o dec.reasoning>>, 0)
              /\ UNCHANGED session
              /\ IF dec.numToolCalls = 0
                 THEN /\ executionResults' = "No tool calls to execute in this iteration"
                      /\ pc' = "update"
                 ELSE /\ executionResults' = "Iteration tool calls:\n"
                      /\ pc' = "tools"
      /\ UNCHANGED << legacyVars, publishOk, pins, envVars, msg, command, openaiResult, lastResult, delivered,
                      commandsRun >>

\* a loop body that asks a second time when the request failed
DecideRetries(reply) ==
  LET req == makeOpenAIRequest(now, lastOpenAIRequest, wifiConnected, reply)
      dec == parsePlanningResponse(req.response)
      latency == ReplyLatency(reply)
      cost == IF req.sent THEN Cost(reply = NominalReply) ELSE 0
  IN  /\ pc = "decide"
      /\ req.sent \/ reply = NominalReply
      /\ deviations + cost <= MaxDeviations
      /\ deviations' = deviations + cost
      /\ replies' = IF req.response.code > 0 THEN Append(replies, req.response)
                    ELSE replies \o <<req.response, req.response>>
      /\ sent' = sent + (IF req.sent THEN 1 ELSE 0)
      /\ lastOpenAIRequest' = req.last
      /\ now' = now + (IF req.sent THEN latency ELSE 0)
      /\ decision' = dec
      /\ toolIndex' = 0
      /\ executed' = <<>>
      /\ IF ~dec.shouldContinue
         THEN /\ Publish(<<"Planning decision: Stop planning - " \o dec.reasoning>>, 0)
              /\ session' = [session EXCEPT !.isComplete = TRUE,
                                            !.finalResult = dec.reasoning]
              /\ pc' = "finish"
              /\ UNCHANGED executionResults
         ELSE IF dec.objectiveComplete
         THEN /\ Publish(<<"Planning decision: Objective complete - " \o dec.reasoning>>, 0)
              /\ session' = [session EXCEPT !.isComplete = TRUE,
                                            !.finalResult = dec.reasoning]
              /\ pc' = "finish"
              /\ UNCHANGED executionResults
         ELSE /\ Publish(<<"Planning decision: " \o IntToStr(dec.numToolCalls)
                           \o " tool calls - " \o dec.reasoning>>, 0)
              /\ UNCHANGED session
              /\ IF dec.numToolCalls = 0
                 THEN /\ executionResults' = "No tool calls to execute in this iteration"
                      /\ pc' = "update"
                 ELSE /\ executionResults' = "Iteration tool calls:\n"
                      /\ pc' = "tools"
      /\ UNCHANGED << legacyVars, publishOk, pins, envVars, msg, command, openaiResult, lastResult, delivered,
                      commandsRun >>

\* a loop body whose objectiveComplete test marks the session and goes on
DecideCompleteWithoutBreak(reply) ==
  LET req == makeOpenAIRequest(now, lastOpenAIRequest, wifiConnected, reply)
      dec == parsePlanningResponse(req.response)
      latency == ReplyLatency(reply)
      cost == IF req.sent THEN Cost(reply = NominalReply) ELSE 0
  IN  /\ pc = "decide"
      /\ req.sent \/ reply = NominalReply
      /\ deviations + cost <= MaxDeviations
      /\ deviations' = deviations + cost
      /\ replies' = Append(replies, req.response)
      /\ sent' = sent + (IF req.sent THEN 1 ELSE 0)
      /\ lastOpenAIRequest' = req.last
      /\ now' = now + (IF req.sent THEN latency ELSE 0)
      /\ decision' = dec
      /\ toolIndex' = 0
      /\ executed' = <<>>
      /\ IF ~dec.shouldContinue
         THEN /\ Publish(<<"Planning decision: Stop planning - " \o dec.reasoning>>, 0)
              /\ session' = [session EXCEPT !.isComplete = TRUE,
                                            !.finalResult = dec.reasoning]
              /\ pc' = "finish"
              /\ UNCHANGED executionResults
         ELSE IF dec.objectiveComplete
         THEN /\ Publish(<<"Planning decision: Objective complete - " \o dec.reasoning>>, 0)
              /\ session' = [session EXCEPT !.isComplete = TRUE,
                                            !.finalResult = dec.reasoning]
              /\ IF dec.numToolCalls = 0
                 THEN /\ executionResults' = "No tool calls to execute in this iteration"
                      /\ pc' = "update"
                 ELSE /\ executionResults' = "Iteration tool calls:\n"
                      /\ pc' = "tools"
         ELSE /\ Publish(<<"Planning decision: " \o IntToStr(dec.numToolCalls)
                           \o " tool calls - " \o dec.reasoning>>, 0)
              /\ UNCHANGED session
              /\ IF dec.numToolCalls = 0
                 THEN /\ executionResults' = "No tool calls to execute in this iteration"
                      /\ pc' = "update"
                 ELSE /\ executionResults' = "Iteration tool calls:\n"
                      /\ pc' = "tools"
      /\ UNCHANGED << legacyVars, publishOk, pins, envVars, msg, command, openaiResult, lastResult, delivered,
                      commandsRun >>

\* processObjectiveIteratively and the two stop tests that follow it
Decide(reply) ==
  LET req == makeOpenAIRequest(now, lastOpenAIRequest, wifiConnected, reply)
      dec == parsePlanningResponse(req.response)
      latency == ReplyLatency(reply)
      cost == IF req.sent THEN Cost(reply = NominalReply) ELSE 0
  IN  /\ pc = "decide"
      /\ req.sent \/ reply = NominalReply
      /\ deviations + cost <= MaxDeviations
      /\ deviations' = deviations + cost
      /\ replies' = Append(replies, req.response)
      /\ sent' = sent + (IF req.sent THEN 1 ELSE 0)
      /\ lastOpenAIRequest' = req.last
      /\ now' = now + (IF req.sent THEN latency ELSE 0)
      /\ decision' = dec
      /\ toolIndex' = 0
      /\ executed' = <<>>
      /\ IF ~dec.shouldContinue
         THEN /\ Publish(<<"Planning decision: Stop planning - " \o dec.reasoning>>, 0)
              /\ session' = [session EXCEPT !.isComplete = TRUE,
                                            !.finalResult = dec.reasoning]
              /\ pc' = "finish"
              /\ UNCHANGED executionResults
         ELSE IF dec.objectiveComplete
         THEN /\ Publish(<<"Planning decision: Objective complete - " \o dec.reasoning>>, 0)
              /\ session' = [session EXCEPT !.isComplete = TRUE,
                                            !.finalResult = dec.reasoning]
              /\ pc' = "finish"
              /\ UNCHANGED executionResults
         ELSE /\ Publish(<<"Planning decision: " \o IntToStr(dec.numToolCalls)
                           \o " tool calls - " \o dec.reasoning>>, 0)
              /\ UNCHANGED session
              /\ IF dec.numToolCalls = 0
                 THEN /\ executionResults' = "No tool calls to execute in this iteration"
                      /\ pc' = "update"
                 ELSE /\ executionResults' = "Iteration tool calls:\n"
                      /\ pc' = "tools"
      /\ UNCHANGED << legacyVars, publishOk, pins, envVars, msg, command, openaiResult, lastResult, delivered,
                      commandsRun >>

\* the link as the notices of one call of a tool meet it: sendMqttMessage reads
\* client.connected() and calls client.publish() anew for each notice.  Notices
\* first .. last meet the link down, every other notice meets it up; last = 0
\* says to the end of the call.  Kind "mqtt" is client.connected() answering
\* false, kind "publish" is client.publish() answering false
Outage(kind, first, last) == <<kind, first, last>>

NoOutage == Outage("none", 0, 0)

\* the most notices one call of a tool makes: testSonar, with a valid reading
MaxNotices == 3 + TEST_SAMPLES + 3

LinkKinds == {"mqtt", "publish"}

\* what the link of the kind is when the call starts
LinkUp(kind) == IF kind = "mqtt" THEN mqttConnected ELSE publishOk

\* the link lost inside a call of n notices: before any notice but the first,
\* in a wait of the tool (delay(50) after a reading of getSonarDistance,
\* delay(100) after one of testSonar) or between two publishes, for the rest of
\* the call or until it is back after a later notice
LossesIn(kind, n) ==
  { Outage(kind, w[1], w[2]) :
      w \in { v \in (2 .. n) \X (0 .. (n - 1)) : v[2] = 0 \/ v[1] <= v[2] } }

\* the link down when a call of n notices starts, and back after any notice but
\* the last
RestoresIn(kind, n) == { Outage(kind, 1, last) : last \in 1 .. (n - 1) }

\* every outage of one call
Outages ==
  {NoOutage}
  \cup UNION { LossesIn(kind, MaxNotices) \cup RestoresIn(kind, MaxNotices) :
                kind \in LinkKinds }

\* the link losing the connection costs one deviation; the link coming back
\* costs nothing, as it does between two calls
LinkCost(link) == IF link = NoOutage \/ link[2] = 1 THEN 0 ELSE 1

\* the outages there are to choose from where the program is: a tool runs in
\* the loop at `at` only, an outage lies within the notices the call at hand
\* makes of these readings, a link that is down by then may come back, and a
\* link that is up may be lost while a deviation is left
OutagesAt(at, calls, pings) ==
  IF pc # at THEN {NoOutage}
  ELSE LET call == calls[toolIndex + 1]
           n == IF call.isValid
                THEN executeTool(call.tool, call.params, pings, wifiConnected,
                                 mqttConnected, publishOk, now).notices
                ELSE 0
       IN  {NoOutage}
           \cup UNION { IF ~LinkUp(kind) THEN RestoresIn(kind, n)
                        ELSE IF deviations < MaxDeviations THEN LossesIn(kind, n)
                        ELSE {} : kind \in LinkKinds }

\* notice i of the call falls into the outage
InOutage(link, i) == link[2] <= i /\ (link[3] = 0 \/ i <= link[3])

\* what client.connected() answers at notice i
MqttAt(link, i) == IF link[1] = "mqtt" THEN ~InOutage(link, i) ELSE mqttConnected

\* what client.connected() may answer to getEnvironmentInfo, which reads it
\* between its third and its fourth notice: either answer when the link changes
\* there
SeenAt(at, calls, link) ==
  IF pc # at THEN {mqttConnected}
  ELSE LET call == calls[toolIndex + 1]
       IN  {MqttAt(link, ENV_NOTICES_BEFORE_READ)}
           \cup (IF call.isValid /\ call.tool = "get_environment_info"
                 THEN {MqttAt(link, ENV_NOTICES_BEFORE_READ + 1)} ELSE {})

\* what client.publish() answers at notice i
PublishAt(link, i) == IF link[1] = "publish" THEN ~InOutage(link, i) ELSE publishOk

\* the link after the last of n notices
LinkAfter(link, kind, n, before) ==
  IF link[1] = kind THEN link[3] # 0 /\ link[3] < n ELSE before

\* an outage needs a call that runs; with the link up at the start a notice goes
\* out before it, with the link down it starts with the call and ends inside it.
\* seen is what client.connected() answers to getEnvironmentInfo, read between
\* its third and its fourth notice: either answer when the link changes there
LinkApplies(link, seen, call, notices) ==
  /\ link # NoOutage =>
       /\ call.isValid
       /\ IF LinkUp(link[1])
          THEN link[2] >= 2 /\ link[2] <= notices
          ELSE link[2] = 1 /\ link[3] < notices
  /\ \/ seen = MqttAt(link, ENV_NOTICES_BEFORE_READ)
     \/ /\ call.isValid
        /\ call.tool = "get_environment_info"
        /\ seen = MqttAt(link, ENV_NOTICES_BEFORE_READ + 1)

\* the publishes of one call of a tool: each notice goes out if the link is up
\* when sendMqttMessage is called with it
ToolPublish(link, seen, call, out, pings) ==
  IF link = NoOutage
  THEN /\ Publish(IF out.notices > 0 THEN <<out.notice>> ELSE <<>>,
                  IF out.notices > 0 THEN out.notices - 1 ELSE 0)
       /\ UNCHANGED <<mqttConnected, publishOk>>
  ELSE LET through == { i \in 1 .. out.notices : MqttAt(link, i) /\ PublishAt(link, i) }
       IN  /\ published' = published + Cardinality(through)
           /\ lastStatus' =
                IF through = {} THEN lastStatus
                ELSE ToolNotices(call.tool, call.params, pings, wifiConnected, seen, now)
                       [CHOOSE i \in through : \A j \in through : j <= i]
           /\ mqttConnected' = LinkAfter(link, "mqtt", out.notices, mqttConnected)
           /\ publishOk' = LinkAfter(link, "publish", out.notices, publishOk)

\* a for loop that runs from the last action of the decision to the first
ToolStepBackwards(pings, link, seen) ==
  LET call == decision.toolCalls[decision.numToolCalls - toolIndex]
      out == executeTool(call.tool, call.params, pings, wifiConnected, seen,
                        publishOk, now)
      last == toolIndex + 1 >= decision.numToolCalls
      usesSonar == call.isValid
                   /\ call.tool \in {"get_sonar_distance", "test_sonar",
                                     "get_environment_info"}
      cost == Cost(pings = NominalPings) + LinkCost(link)
  IN  /\ pc = "tools"
      /\ usesSonar \/ pings = NominalPings
      /\ deviations + cost <= MaxDeviations
      /\ LinkApplies(link, seen, call, out.notices)
      /\ deviations' = deviations + cost
      /\ toolIndex' = toolIndex + 1
      /\ pc' = IF last THEN "update" ELSE "tools"
      /\ IF ~call.isValid
         THEN /\ executionResults' = executionResults \o SkipLine(call)
              /\ UNCHANGED <<now, executed, published, lastStatus, pins, mqttConnected,
                             publishOk>>
         ELSE /\ executionResults' =
                   executionResults \o ResultLine(toolIndex, call, out.result)
              /\ executed' = Append(executed, [index |-> decision.numToolCalls - toolIndex,
                                            at |-> now,
                                            pings |-> pings])
              /\ pins' = PinsAfter(pins, out.drive)
              /\ now' = now + out.duration + (IF last THEN 0 ELSE TOOL_CALL_DELAY)
              /\ ToolPublish(link, seen, call, out, pings)
      /\ UNCHANGED << legacyVars, lastOpenAIRequest, wifiConnected, msg, command, session,
                      decision,
                      openaiResult, lastResult, delivered, commandsRun,
                      replies, sent >>

\* a for loop that waits only when the next action is an accepted one
ToolStepSettlesBeforeAccepted(pings, link, seen) ==
  LET call == decision.toolCalls[toolIndex + 1]
      out == executeTool(call.tool, call.params, pings, wifiConnected, seen,
                        publishOk, now)
      last == toolIndex + 1 >= decision.numToolCalls
      usesSonar == call.isValid
                   /\ call.tool \in {"get_sonar_distance", "test_sonar",
                                     "get_environment_info"}
      cost == Cost(pings = NominalPings) + LinkCost(link)
  IN  /\ pc = "tools"
      /\ usesSonar \/ pings = NominalPings
      /\ deviations + cost <= MaxDeviations
      /\ LinkApplies(link, seen, call, out.notices)
      /\ deviations' = deviations + cost
      /\ toolIndex' = toolIndex + 1
      /\ pc' = IF last THEN "update" ELSE "tools"
      /\ IF ~call.isValid
         THEN /\ executionResults' = executionResults \o SkipLine(call)
              /\ UNCHANGED <<now, executed, published, lastStatus, pins, mqttConnected,
                             publishOk>>
         ELSE /\ executionResults' =
                   executionResults \o ResultLine(toolIndex, call, out.result)
              /\ executed' = Append(executed, [index |-> toolIndex + 1, at |-> now,
                                            pings |-> pings])
              /\ pins' = PinsAfter(pins, out.drive)
              /\ now' = now + out.duration
                        + (IF last \/ ~decision.toolCalls[toolIndex + 2].isValid
                           THEN 0 ELSE TOOL_CALL_DELAY)
              /\ ToolPublish(link, seen, call, out, pings)
      /\ UNCHANGED << legacyVars, lastOpenAIRequest, wifiConnected, msg, command, session,
                      decision,
                      openaiResult, lastResult, delivered, commandsRun,
                      replies, sent >>

\* one pass of the for loop of executePlanningToolCalls
ToolStep(pings, link, seen) ==
  LET call == decision.toolCalls[toolIndex + 1]
      out == executeTool(call.tool, call.params, pings, wifiConnected, seen,
                        publishOk, now)
      last == toolIndex + 1 >= decision.numToolCalls
      usesSonar == call.isValid
                   /\ call.tool \in {"get_sonar_distance", "test_sonar",
                                     "get_environment_info"}
      cost == Cost(pings = NominalPings) + LinkCost(link)
  IN  /\ pc = "tools"
      /\ usesSonar \/ pings = NominalPings
      /\ deviations + cost <= MaxDeviations
      /\ LinkApplies(link, seen, call, out.notices)
      /\ deviations' = deviations + cost
      /\ toolIndex' = toolIndex + 1
      /\ pc' = IF last THEN "update" ELSE "tools"
      /\ IF ~call.isValid
         THEN /\ executionResults' = executionResults \o SkipLine(call)
              /\ UNCHANGED <<now, executed, published, lastStatus, pins, mqttConnected,
                             publishOk>>
         ELSE /\ executionResults' =
                   executionResults \o ResultLine(toolIndex, call, out.result)
              /\ executed' = Append(executed, [index |-> toolIndex + 1, at |-> now,
                                            pings |-> pings])
              /\ pins' = PinsAfter(pins, out.drive)
              /\ now' = now + out.duration + (IF last THEN 0 ELSE TOOL_CALL_DELAY)
              /\ ToolPublish(link, seen, call, out, pings)
      /\ UNCHANGED << legacyVars, lastOpenAIRequest, wifiConnected, msg, command, session,
                      decision,
                      openaiResult, lastResult, delivered, commandsRun,
                      replies, sent >>

\* the rest of the loop body: fold the results into the session, test the goal
UpdateSession ==
  LET updated == updatePlanningSession(session, decision, executionResults)
      notice == GoalAchievedNotice(
                  [session EXCEPT !.executionHistory =
                     @ \o HistoryBlock(session, decision, executionResults)],
                  executionResults)
      done == "Execution complete: " \o IntToStr(decision.numToolCalls)
              \o " tools executed"
  IN  /\ pc = "update"
      /\ session' = updated
      /\ IF updated.isComplete
         THEN /\ Publish(
                   (IF notice # "" THEN <<done, notice>> ELSE <<done>>)
                   \o << "SUCCESS: Goal evaluation indicates objective has been achieved!",
                         "SUCCESS: Planning stopped - objective has been achieved!" >>, 0)
              /\ pc' = "finish"
              /\ UNCHANGED now
         ELSE /\ Publish(<<done>>, 0)
              /\ now' = now + ITERATION_DELAY
              /\ pc' = "while"
      /\ UNCHANGED << legacyVars, publishOk, pins, lastOpenAIRequest, envVars, msg, command, decision, openaiResult, toolIndex, executionResults, executed, lastResult,
                      delivered, commandsRun, replies, sent, deviations >>

\* after the loop: the budget branch, the summary and the final notice
FinishPlanning ==
  LET final == [session EXCEPT !.finalResult = FinalResult(session)]
  IN  /\ pc = "finish"
      /\ session' = final
      /\ lastResult' = Summary(final, now)
      /\ Publish((IF session.isComplete THEN <<>>
                  ELSE IF session.iterationCount >= MAX_ITERATIONS
                  THEN <<"Planning stopped: Maximum iterations reached">>
                  ELSE <<"Planning stopped: Time limit reached">>)
                 \o <<FinalNotice(final, now)>>, 0)
      /\ pc' = "respond"
      /\ UNCHANGED << legacyVars, publishOk, pins, now, lastOpenAIRequest, envVars, msg, command, decision, openaiResult, toolIndex, executionResults, executed, delivered,
                      commandsRun, replies, sent, deviations >>

(***************************************************************************)
(* Direct execution of a simple command                                    *)
(***************************************************************************)

\* testInternetConnectivity gives its http.GET five seconds
GET_TIMEOUT == 5000

\* what the http.GET of testInternetConnectivity does: whether it is answered,
\* and how long it blocks
GetOutcome(ok, ms) == <<ok, ms>>

NominalGet == GetOutcome(TRUE, NominalLatency)

GetOutcomes == {NominalGet, GetOutcome(FALSE, GET_TIMEOUT)}

\* a direct path that keeps a time stamp of its own, which no request of the
\* planning loop moves and which moves none of theirs
DirectProcessOwnStamp(get, lost, reply) ==
  LET tested == wifiConnected
      online == tested /\ get[1]
      asksAt == now + (IF tested THEN get[2] ELSE 0)
      wifiAtRequest == wifiConnected /\ ~lost
      req == makeOpenAIRequest(asksAt, 0, wifiAtRequest, reply)
      result == processWithOpenAI(command, online, req.response)
      asked == online /\ req.sent
      latency == ReplyLatency(reply)
      cost == Cost(get = NominalGet) + Cost(~lost)
              + (IF asked THEN Cost(reply \in DirectNominalReplies) ELSE 0)
  IN  /\ pc = "direct"
      /\ tested \/ (get = NominalGet /\ ~lost)
      /\ asked \/ reply = DirectNominalReply
      /\ deviations + cost <= MaxDeviations
      /\ deviations' = deviations + cost
      /\ replies' = IF online THEN Append(replies, req.response) ELSE replies
      /\ sent' = sent + (IF asked THEN 1 ELSE 0)
      /\ UNCHANGED lastOpenAIRequest
      /\ wifiConnected' = wifiAtRequest
      /\ now' = asksAt + (IF asked THEN latency ELSE 0)
      /\ openaiResult' = result
      /\ toolIndex' = 0
      /\ executed' = <<>>
      /\ IF DirectEarlyResult(result) # ""
         THEN /\ lastResult' = DirectEarlyResult(result)
              /\ pc' = "respond"
              /\ UNCHANGED executionResults
         ELSE /\ executionResults' = DirectHeader(result)
              /\ pc' = "direct_tools"
              /\ UNCHANGED lastResult
      /\ UNCHANGED << legacyVars, publishOk, pins, mqttConnected, msg, command, session, decision,
                      published, lastStatus, delivered, commandsRun >>

\* processWithOpenAI and the part of executeToolCalls before its loop.
\* WiFi.status() is read twice, by testInternetConnectivity before its GET and
\* by makeOpenAIRequest after it; lost says the association goes in between
DirectProcess(get, lost, reply) ==
  LET tested == wifiConnected
      online == tested /\ get[1]
      asksAt == now + (IF tested THEN get[2] ELSE 0)
      wifiAtRequest == wifiConnected /\ ~lost
      req == makeOpenAIRequest(asksAt, lastOpenAIRequest, wifiAtRequest, reply)
      result == processWithOpenAI(command, online, req.response)
      asked == online /\ req.sent
      latency == ReplyLatency(reply)
      cost == Cost(get = NominalGet) + Cost(~lost)
              + (IF asked THEN Cost(reply \in DirectNominalReplies) ELSE 0)
  IN  /\ pc = "direct"
      /\ tested \/ (get = NominalGet /\ ~lost)
      /\ asked \/ reply = DirectNominalReply
      /\ deviations + cost <= MaxDeviations
      /\ deviations' = deviations + cost
      /\ replies' = IF online THEN Append(replies, req.response) ELSE replies
      /\ sent' = sent + (IF asked THEN 1 ELSE 0)
      /\ lastOpenAIRequest' = IF online THEN req.last ELSE lastOpenAIRequest
      /\ wifiConnected' = wifiAtRequest
      /\ now' = asksAt + (IF asked THEN latency ELSE 0)
      /\ openaiResult' = result
      /\ toolIndex' = 0
      /\ executed' = <<>>
      /\ IF DirectEarlyResult(result) # ""
         THEN /\ lastResult' = DirectEarlyResult(result)
              /\ pc' = "respond"
              /\ UNCHANGED executionResults
         ELSE /\ executionResults' = DirectHeader(result)
              /\ pc' = "direct_tools"
              /\ UNCHANGED lastResult
      /\ UNCHANGED << legacyVars, publishOk, pins, mqttConnected, msg, command, session, decision,
                      published, lastStatus, delivered, commandsRun >>

\* one pass of the for loop of executeToolCalls
DirectToolStep(pings, link, seen) ==
  LET call == openaiResult.toolCalls[toolIndex + 1]
      out == executeTool(call.tool, call.params, pings, wifiConnected, seen,
                        publishOk, now)
      last == toolIndex + 1 >= openaiResult.numToolCalls
      usesSonar == call.isValid
                   /\ call.tool \in {"get_sonar_distance", "test_sonar",
                                     "get_environment_info"}
      cost == Cost(pings = NominalPings) + LinkCost(link)
      line == IF call.isValid THEN ResultLine(toolIndex, call, out.result)
              ELSE SkipLine(call)
  IN  /\ pc = "direct_tools"
      /\ usesSonar \/ pings = NominalPings
      /\ deviations + cost <= MaxDeviations
      /\ LinkApplies(link, seen, call, out.notices)
      /\ deviations' = deviations + cost
      /\ toolIndex' = toolIndex + 1
      /\ executionResults' = executionResults \o line
      /\ IF last
         THEN /\ pc' = "respond"
              /\ lastResult' = executionResults \o line \o DirectTrailer(openaiResult)
         ELSE /\ pc' = "direct_tools"
              /\ UNCHANGED lastResult
      /\ IF ~call.isValid
         THEN UNCHANGED <<now, executed, published, lastStatus, pins, mqttConnected, publishOk>>
         ELSE /\ executed' = Append(executed, [index |-> toolIndex + 1, at |-> now,
                                            pings |-> pings])
              /\ pins' = PinsAfter(pins, out.drive)
              /\ now' = now + out.duration + (IF last THEN 0 ELSE TOOL_CALL_DELAY)
              /\ ToolPublish(link, seen, call, out, pings)
      /\ UNCHANGED << legacyVars, lastOpenAIRequest, wifiConnected, msg, command, session,
                      decision,
                      openaiResult, delivered, commandsRun, replies, sent >>

(***************************************************************************)
(* The connections                                                         *)
(***************************************************************************)

\* the broker connection is lost, at any moment (during a run: no client.loop()
\* keeps it alive); the code sees it at its next publish or client.connected()
MqttDrop ==
  /\ mqttConnected
  /\ deviations < MaxDeviations
  /\ deviations' = deviations + 1
  /\ mqttConnected' = FALSE
  /\ UNCHANGED << legacyVars, publishOk, pins, now, lastOpenAIRequest, wifiConnected, pc, msg, command, runVars,
                  lastResult, published, lastStatus, delivered, commandsRun, replies,
                  sent >>

\* the radio loses its association, at any moment; the code sees it at its next
\* read of WiFi.status()
WifiDrop ==
  /\ wifiConnected
  /\ deviations < MaxDeviations
  /\ deviations' = deviations + 1
  /\ wifiConnected' = FALSE
  /\ UNCHANGED << legacyVars, publishOk, pins, now, lastOpenAIRequest, mqttConnected, pc, msg, command, runVars,
                  lastResult, published, lastStatus, delivered, commandsRun, replies,
                  sent >>

\* client.publish() starts to fail: the packet does not fit the client's
\* buffer, or the socket does not take it
PublishFault ==
  /\ publishOk
  /\ deviations < MaxDeviations
  /\ deviations' = deviations + 1
  /\ publishOk' = FALSE
  /\ UNCHANGED << legacyVars, pins, now, lastOpenAIRequest, envVars, pc, msg, command, runVars,
                  lastResult, published, lastStatus, delivered, commandsRun, replies,
                  sent >>

\* client.publish() succeeds again
PublishRestore ==
  /\ ~publishOk
  /\ publishOk' = TRUE
  /\ UNCHANGED << legacyVars, pins, now, lastOpenAIRequest, envVars, pc, msg, command, runVars,
                  lastResult, published, lastStatus, delivered, commandsRun, replies,
                  sent, deviations >>

\* the WiFi stack re-associates by itself, at any moment
WifiRestore ==
  /\ ~wifiConnected
  /\ wifiConnected' = TRUE
  /\ UNCHANGED << legacyVars, publishOk, pins, now, lastOpenAIRequest, mqttConnected, pc, msg, command, runVars,
                  lastResult, published, lastStatus, delivered, commandsRun, replies,
                  sent, deviations >>

Next ==
  \/ \E failures \in ConnectFailures : Reconnect(failures)
  \/ \E m \in Messages, wait \in IdleWaits : Callback(m, wait)
  \/ LoopTop
  \/ \E reply \in PlanningReplies : Decide(reply)
  \/ \E pings \in SonarStreams :
       \E link \in OutagesAt("tools", decision.toolCalls, pings) :
         \E seen \in SeenAt("tools", decision.toolCalls, link) :
           ToolStep(pings, link, seen)
  \/ UpdateSession
  \/ FinishPlanning
  \/ \E get \in GetOutcomes, lost \in BOOLEAN, reply \in DirectReplies :
       DirectProcess(get, lost, reply)
  \/ \E pings \in SonarStreams :
       \E link \in OutagesAt("direct_tools", openaiResult.toolCalls, pings) :
         \E seen \in SeenAt("direct_tools", openaiResult.toolCalls, link) :
           DirectToolStep(pings, link, seen)
  \/ Respond
  \/ MqttDrop
  \/ WifiDrop
  \/ WifiRestore
  \/ PublishFault
  \/ PublishRestore

Spec == Init /\ [][Next]_vars

\* the first measurement of a planning run, over every mix of samples: a command
\* arrives, the first decision asks for get_sonar_distance, the tool runs
ToolNext ==
  \/ Reconnect(0)
  \/ Callback(Message(TRUE, {"content", "sender", "id"}, "",
                      "find the nearest obstacle"), NominalWait)
  \/ LoopTop
  \/ Decide(NominalReply)
  \/ \E pings \in SampleStreams : ToolStep(pings, NoOutage, mqttConnected)

ToolSpec == Init /\ [][ToolNext]_vars

\* the first iteration of a planning run, over every batch of actions, up to the
\* reasoning call of the second iteration
BatchNext ==
  \/ Reconnect(0)
  \/ Callback(Message(TRUE, {"content", "sender", "id"}, "",
                      "find the nearest obstacle"), NominalWait)
  \/ LoopTop
  \/ \E reply \in BatchReplies : requests = 0 /\ Decide(reply)
  \/ ToolStep(NominalPings, NoOutage, mqttConnected)
  \/ UpdateSession

BatchSpec == Init /\ [][BatchNext]_vars

\* the first iteration of a planning run, over every mix of accepted and
\* skipped actions, up to the reasoning call of the second iteration
GateNext ==
  \/ Reconnect(0)
  \/ Callback(Message(TRUE, {"content", "sender", "id"}, "",
                      "find the nearest obstacle"), NominalWait)
  \/ LoopTop
  \/ \E reply \in GateReplies : Len(replies) = 0 /\ Decide(reply)
  \/ ToolStep(NominalPings, NoOutage, mqttConnected)
  \/ UpdateSession

GateSpec == Init /\ [][GateNext]_vars

\* the first iteration of a planning run whose reply lists about as many actions
\* as a decision holds, or more
ListedNext ==
  \/ Reconnect(0)
  \/ Callback(Message(TRUE, {"content", "sender", "id"}, "",
                      "find the nearest obstacle"), NominalWait)
  \/ LoopTop
  \/ \E reply \in ListedReplies : Len(replies) = 0 /\ Decide(reply)
  \/ ToolStep(NominalPings, NoOutage, mqttConnected)
  \/ UpdateSession

ListedSpec == Init /\ [][ListedNext]_vars

\* the first iteration of a planning run that moves the car
MoveNext ==
  \/ Reconnect(0)
  \/ Callback(Message(TRUE, {"content", "sender", "id"}, "",
                      "find the nearest obstacle"), NominalWait)
  \/ LoopTop
  \/ \E reply \in MoveReplies : Len(replies) = 0 /\ Decide(reply)
  \/ ToolStep(NominalPings, NoOutage, mqttConnected)
  \/ UpdateSession

MoveSpec == Init /\ [][MoveNext]_vars

\* commands, and the broker handing the robot's last publication back to it
LoopbackNext ==
  \/ Reconnect(0)
  \/ \E c \in {"find the nearest obstacle", " stop "} :
       Callback(Message(TRUE, {"content", "sender", "id"}, "", c), NominalWait)
  \/ \E m \in OwnOutput(lastStatus) : published > 0 /\ Callback(m, NominalWait)
  \/ LoopTop
  \/ \E reply \in {NominalReply, CompleteReply} : Decide(reply)
  \/ ToolStep(NominalPings, NoOutage, mqttConnected)
  \/ UpdateSession
  \/ FinishPlanning
  \/ DirectProcess(NominalGet, FALSE, DirectNominalReply)
  \/ DirectToolStep(NominalPings, NoOutage, mqttConnected)
  \/ Respond

LoopbackSpec == Init /\ [][LoopbackNext]_vars

\* objectives for evaluateGoalCompletion: a threshold with "until", the widest
\* threshold the sensor covers, "until" alone, "stop" alone, "halt" alone,
\* "until" with "stop", a threshold with "stop", and none of the patterns
GoalCommands ==
  { "move forward until within 20cm of obstacle",
    "move forward until within 400cm of obstacle",
    "move forward until an obstacle is near",
    "move forward then stop",
    "reverse then halt",
    "move forward until you have to stop",
    "approach within 30cm then stop",
    "find the nearest obstacle" }

GoalReplies == { NominalReply, EchoReply, HaltReply, ContextReply, QuietReply }

\* planning runs whose results are judged by evaluateGoalCompletion
GoalNext ==
  \/ Reconnect(0)
  \/ \E c \in GoalCommands :
       Callback(Message(TRUE, {"content", "sender", "id"}, "", c), NominalWait)
  \/ LoopTop
  \/ \E reply \in GoalReplies : Decide(reply)
  \/ \E pings \in SonarStreams : ToolStep(pings, NoOutage, mqttConnected)
  \/ UpdateSession
  \/ FinishPlanning

GoalSpec == Init /\ [][GoalNext]_vars

\* the ways a planning run can end: completion, a stop decision, a failed
\* request, the iteration budget
VerdictReplies ==
  { NominalReply, CompleteReply, DoneReply, StopReply, GiveUpReply, QuietReply,
    EmptyReply, TimeoutReply, BadInnerReply }

VerdictNext ==
  \/ Reconnect(0)
  \/ Callback(Message(TRUE, {"content", "sender", "id"}, "",
                      "find the nearest obstacle"), NominalWait)
  \/ LoopTop
  \/ \E reply \in VerdictReplies : Decide(reply)
  \/ ToolStep(NominalPings, NoOutage, mqttConnected)
  \/ UpdateSession
  \/ FinishPlanning
  \/ Respond

VerdictSpec == Init /\ [][VerdictNext]_vars

(***************************************************************************)
(* The legacy sketch: tokenize and parse_and_route                         *)
(***************************************************************************)

\* the most lines an instruction text has, and the most calls of
\* parse_and_route that are kept on record
MaxInstr == 3
MaxRouted == 5

InstructionLines == { "go_forward 100", "turn_degrees_left 90", "wait 5", "// start" }

RECURSIVE JoinLines(_)
\* the lines, each followed by a newline
JoinLines(lines) ==
  IF lines = <<>> THEN "" ELSE Head(lines) \o "\n" \o JoinLines(Tail(lines))

\* what http.getString() may return: nothing, or up to MaxInstr lines, the last
\* one with or without its newline
InstructionTexts ==
  LET texts == { JoinLines(lines) :
                   lines \in UNION { [1..n -> InstructionLines] : n \in 1..MaxInstr } }
  IN  {""} \cup texts \cup { SubSeq(t, 1, Len(t) - 1) : t \in texts }

\* what parse_and_route(command, param) does to the motors: the movement it
\* routes to, "none" for wait, a comment and an unknown command
RouteDrive(name) ==
  IF name = "go_forward" THEN "forward"
  ELSE IF name = "go_backward" THEN "backward"
  ELSE IF name = "turn_degrees_left" THEN "left"
  ELSE IF name = "turn_degrees_right" THEN "right"
  ELSE "none"

\* all the other variables: the legacy sketch has none of them
carVars ==
  << now, lastOpenAIRequest, wifiConnected, mqttConnected, publishOk, pc, msg, command, session,
     decision, openaiResult, toolIndex, executionResults, executed, lastResult,
     published, lastStatus, delivered, commandsRun, replies, sent, deviations >>

\* the while test of tokenize on the text t
TokenizeGoesOn(t) == IndexOf(t, " ") # -1

\* setup() up to the end of its wait loop: WiFi.status() is WL_CONNECTED.  The
\* loop goes round for as long as the network does not take the sketch on
LegacyConnect ==
  /\ lpc = "setup"
  /\ lpc' = "download"
  /\ UNCHANGED <<carVars, pins, payload, in, routed>>

\* what http.GET() answers in setup(): a status, or a negative error of the client
GetCodes == {200, -1}

\* the rest of setup(): WiFi.status() is read again, the text is asked for, and
\* tokenize(payload) is entered if an answer has come
Download(wifi, code, text) ==
  /\ lpc = "download"
  /\ IF wifi /\ code > 0
     THEN /\ payload' = text
          /\ in' = text
          /\ routed' = <<>>
          /\ lpc' = IF TokenizeGoesOn(text) THEN "tokenize" ELSE "loop"
     ELSE /\ text = ""
          /\ (wifi \/ code = 200)
          /\ lpc' = "loop"
          /\ UNCHANGED <<payload, in, routed>>
  /\ UNCHANGED <<carVars, pins>>

Downloads == \E wifi \in BOOLEAN, code \in GetCodes, text \in InstructionTexts :
               Download(wifi, code, text)

\* the motor pins after parse_and_route(command, param): every movement it
\* routes to ends with stop_wheels(); wait, a comment and an unknown command
\* write no pin
RoutedPins(levels, name) == PinsAfter(levels, RouteDrive(name))

\* one pass of the while loop of tokenize: the tokens of the first line go to
\* parse_and_route, then the text is cut after its first newline
TokenizeStep ==
  /\ lpc = "tokenize"
  /\ \E space \in {IndexOf(in, " ")}, newline \in {IndexOf(in, "\n")} :
       \E first \in {Substring(in, 0, space)},
          second \in {Substring(in, space + 1, newline)},
          rest \in {Substring(in, newline + 1, Len(in))} :
         /\ routed' = IF Len(routed) < MaxRouted
                      THEN Append(routed, [command |-> first, param |-> ToInt(second)])
                      ELSE routed
         /\ pins' = RoutedPins(pins, first)
         /\ in' = rest
         /\ lpc' = IF TokenizeGoesOn(rest) THEN "tokenize" ELSE "loop"
  /\ UNCHANGED <<carVars, payload>>

LegacyNext ==
  \/ LegacyConnect
  \/ Downloads
  \/ TokenizeStep

\* once WiFi is there the processor runs the sketch on: http.GET() comes back,
\* and no step of tokenize waits for anything.  The wait loop for WiFi may go
\* round for ever
LegacySpec ==
  Init /\ [][LegacyNext]_vars /\ WF_vars(Downloads) /\ WF_vars(TokenizeStep)

(***************************************************************************)
(* Properties                                                              *)
(***************************************************************************)

PlanningPcs == {"while", "decide", "tools", "update", "finish"}

\* inside executeIterativePlanning, after at least one reasoning call
InRun == pc \in PlanningPcs /\ requests > 0

\* C1: in every run of executeIterativePlanning, whatever the reasoning service
\* answers, iterationCount never exceeds MAX_ITERATIONS and at most
\* MAX_ITERATIONS reasoning calls are made, one per iteration at most; the loop
\* is left as soon as the cap is reached.
C1_BoundedIterations ==
  /\ session.iterationCount <= MAX_ITERATIONS
  /\ requests <= MAX_ITERATIONS
  /\ pc \in PlanningPcs => requests <= session.iterationCount
  /\ (pc \in {"decide", "tools", "update"}) => session.iterationCount >= 1

\* ten answers that all ask to continue, and the run has ended at the cap
C1_Witness ==
  /\ pc = "respond"
  /\ session.iterationCount = MAX_ITERATIONS
  /\ requests = MAX_ITERATIONS
  /\ \A k \in 1..requests :
       replies[k].doc.should_continue /\ ~replies[k].doc.objective_complete
  /\ ~session.isComplete

\* C2: no iteration starts once MAX_PLANNING_TIME has elapsed, so at the return
\* of executeIterativePlanning the elapsed time is at most MAX_PLANNING_TIME plus
\* the duration of the last iteration; the budget is looked at only at the top
\* of the loop, so a started iteration processes every one of its actions.
C2_BudgetAtLoopTop ==
  /\ session.iterationCount > 0 =>
       session.lastIterationTime - session.startTime < MAX_PLANNING_TIME
  /\ pc = "finish" =>
       now - session.startTime
         <= MAX_PLANNING_TIME + (now - session.lastIterationTime)
  /\ pc = "update" =>
       /\ toolIndex = decision.numToolCalls
       /\ \A i \in 1..decision.numToolCalls :
            decision.toolCalls[i].isValid =>
              \E k \in 1..Len(executed) : executed[k].index = i

\* the budget expired during an iteration, an action of that iteration was
\* started after that, and the loop then ended on the time limit
C2_Witness ==
  /\ pc = "respond"
  /\ session.finalResult = "Planning stopped: Time limit reached"
  /\ \E k \in 1..Len(executed) :
       executed[k].at - session.startTime >= MAX_PLANNING_TIME
  /\ now - session.startTime > MAX_PLANNING_TIME

GatewayFailed(r) == r.code <= 0 \/ r.outer # "ok" \/ r.inner # "ok"

StopDecision(d) ==
  /\ d.numToolCalls = 0
  /\ d.toolCalls = <<>>
  /\ ~d.shouldContinue
  /\ ~d.objectiveComplete
  /\ d.reasoning # ""

\* processObjectiveIteratively at time t with the last accepted request at time last
Decided(t, last, wifi, reply) ==
  parsePlanningResponse(makeOpenAIRequest(t, last, wifi, reply).response)

\* each failing request (a failing reply, a call inside the rate limit window,
\* a call with the WiFi down) is decided as a stop
EveryFailureDecidesStop ==
  /\ \A reply \in FailureReplies :
       StopDecision(Decided(OPENAI_RATE_LIMIT_MS, 0, TRUE, reply))
  /\ StopDecision(Decided(OPENAI_RATE_LIMIT_MS - 1, 0, TRUE, NominalReply))
  /\ StopDecision(Decided(OPENAI_RATE_LIMIT_MS, 0, FALSE, NominalReply))

\* C3: every kind of gateway failure (rate limit, WiFi down, HTTP failure,
\* unparseable reply, reply without content, unparseable content) comes back
\* from processObjectiveIteratively as a decision with no actions,
\* shouldContinue and objectiveComplete false and a diagnostic as reasoning, and
\* the loop handles it as an ordinary stop decision.
C3_FailuresAreStopDecisions ==
  /\ EveryFailureDecidesStop
  /\ (InRun /\ GatewayFailed(response)) =>
       /\ StopDecision(decision)
       /\ pc = "finish"
       /\ session.isComplete
       /\ session.finalResult = decision.reasoning

\* the WiFi is down when the request is made, and the run ends with the diagnostic
C3_Witness ==
  /\ pc = "finish"
  /\ requests > 0
  /\ response = ErrorResponse("WiFi not connected")
  /\ decision.reasoning = "OpenAI API error: {\"error\": \"WiFi not connected\"}"
  /\ session.finalResult = decision.reasoning

\* the reply was received and parsed, and carries none of the four decision fields
LacksDecisionFields(r) ==
  /\ ~GatewayFailed(r)
  /\ r.doc.has \cap {"should_continue", "objective_complete", "reasoning",
                     "next_context"} = {}

\* C4 as stated: a valid reply without the four decision fields parses to a
\* decision with no actions, both flags false, reasoning and nextContext empty,
\* and the loop ends in the iteration that received it.
C4_NoFieldsNoActions ==
  (InRun /\ LacksDecisionFields(response)) =>
    /\ decision.numToolCalls = 0
    /\ ~decision.shouldContinue
    /\ ~decision.objectiveComplete
    /\ decision.reasoning = ""
    /\ decision.nextContext = ""
    /\ pc = "finish"

\* C4 amended: a valid reply without the four decision fields parses to a
\* decision with both flags false and reasoning and nextContext empty, whose
\* actions are those of the reply's tool_calls (none when it has none); the loop
\* ends in the iteration that received it and executes none of them.
C4_NoFieldsStops ==
  (InRun /\ LacksDecisionFields(response)) =>
    /\ decision.toolCalls = ParseToolCalls(response.doc, MAX_PLANNING_TOOL_CALLS)
    /\ ("tool_calls" \notin response.doc.has => decision.numToolCalls = 0)
    /\ ~decision.shouldContinue
    /\ ~decision.objectiveComplete
    /\ decision.reasoning = ""
    /\ decision.nextContext = ""
    /\ pc = "finish"
    /\ session.isComplete
    /\ session.finalResult = ""
    /\ requests = session.iterationCount
    /\ toolIndex = 0
    /\ executed = <<>>

\* a reply that has tool_calls and nothing else ended the run, its action unexecuted
C4_Witness ==
  /\ pc = "finish"
  /\ requests > 0
  /\ response = BareReply
  /\ decision.numToolCalls = 1
  /\ ~decision.shouldContinue
  /\ executed = <<>>
  /\ session.isComplete

\* C5: in the planning loop an action with confidence <= 0.9 is never handed to
\* executeTool and is recorded as skipped in the results of its iteration, the
\* actions after it being processed as usual; an action with confidence > 0.9 is
\* executed and its result recorded.
C5_ConfidenceGate ==
  pc \in {"tools", "update"} =>
    /\ \A k \in 1..Len(executed) :
         decision.toolCalls[executed[k].index].confidence > CONFIDENCE_THRESHOLD
    /\ \A i \in 1..toolIndex :
         LET call == decision.toolCalls[i]
             ran == \E k \in 1..Len(executed) : executed[k].index = i
         IN  IF call.confidence > CONFIDENCE_THRESHOLD
             THEN /\ ran
                  /\ Contains(executionResults,
                              "[" \o IntToStr(i) \o "] " \o call.tool \o ": ")
             ELSE /\ ~ran
                  /\ Contains(executionResults, SkipLine(call))
    /\ pc = "update" => toolIndex = decision.numToolCalls

\* of three actions with confidence 0.89, 0.91 and 0.90 only the second was executed
C5_Witness ==
  /\ pc = "update"
  /\ response = GatedReply
  /\ Len(executed) = 1
  /\ executed[1].index = 2
  /\ Contains(executionResults, "Skipping move_car (confidence: 0.89 < 0.9)\n")
  /\ Contains(executionResults, "[2] send_mqtt_message: Message sent: Looking around\n")
  /\ Contains(executionResults, "Skipping get_sonar_distance (confidence: 0.90 < 0.9)\n")

Occurrences(s, p) ==
  Cardinality({ i \in 0..(Len(s) - Len(p)) : SubSeq(s, i + 1, i + Len(p)) = p })

\* one get_sonar_distance action with confidence 0.98, to be continued
MeasureAndContinue(r) ==
  /\ ~GatewayFailed(r)
  /\ r.doc.tool_calls = <<Call("get_sonar_distance", "", 98)>>
  /\ r.doc.should_continue
  /\ ~r.doc.objective_complete

\* the run for "find the nearest obstacle" whose first two answers measure and
\* continue and whose third says the objective is complete has returned
ThreeAnswerScenario ==
  /\ pc \in {"finish", "respond"}
  /\ command = "find the nearest obstacle"
  /\ requests = 3
  /\ MeasureAndContinue(replies[1])
  /\ MeasureAndContinue(replies[2])
  /\ ~GatewayFailed(replies[3])
  /\ replies[3].doc.objective_complete

\* C6 as stated: in that scenario the loop executes exactly 3 iterations,
\* finalResult is the reasoning of iteration 3 and executionHistory holds 3
\* iteration blocks in order.
C6_ThreeHistoryBlocks ==
  ThreeAnswerScenario =>
    /\ session.iterationCount = 3
    /\ session.finalResult = replies[3].doc.reasoning
    /\ Occurrences(session.executionHistory, "--- Iteration ") = 3

\* C6 amended: in that scenario the loop executes exactly 3 iterations,
\* finalResult is the reasoning of iteration 3 and executionHistory holds the
\* blocks of iterations 1 and 2 in order, each with its reasoning and its sonar
\* result, and no block for iteration 3.
C6_TwoHistoryBlocks ==
  ThreeAnswerScenario =>
    LET history == session.executionHistory
        first == "--- Iteration 1 ---\nReasoning: " \o replies[1].doc.reasoning
                 \o "\nIteration tool calls:\n[1] get_sonar_distance: "
        second == "\n--- Iteration 2 ---\nReasoning: " \o replies[2].doc.reasoning
                  \o "\nIteration tool calls:\n[1] get_sonar_distance: "
    IN  /\ session.iterationCount = 3
        /\ session.isComplete
        /\ session.finalResult = replies[3].doc.reasoning
        /\ Occurrences(history, "--- Iteration ") = 2
        /\ IndexOf(history, first) = 0
        /\ IndexOf(history, second) > 0
        /\ ~Contains(history, "--- Iteration 3 ---")

\* the scenario has run to its end, on the answer "objective complete" that also
\* asks to continue
C6_Witness ==
  /\ ThreeAnswerScenario
  /\ pc = "respond"
  /\ replies[3] = CompleteReply
  /\ session.finalResult = "Nearest obstacle located. Objective achieved!"

RateLimitResponse == ErrorResponse("Rate limit exceeded")

\* C7: a reasoning request made less than OPENAI_RATE_LIMIT_MS after the last
\* accepted one comes back at once with the rate-limit failure: nothing is sent,
\* no time passes, the time of the last accepted request stays; the decision
\* made of it stops the planning, and the loop ends in that iteration with the
\* one request it made.
C7_RateLimitStops ==
  (InRun /\ response = RateLimitResponse) =>
    /\ now - lastOpenAIRequest < OPENAI_RATE_LIMIT_MS
    /\ lastOpenAIRequest < now \/ now = 0
    /\ sent = requests - 1
    /\ now = session.lastIterationTime
    /\ ~decision.shouldContinue
    /\ decision.numToolCalls = 0
    /\ Contains(decision.reasoning, "Rate limit exceeded")
    /\ pc = "finish"
    /\ session.isComplete
    /\ session.finalResult = decision.reasoning
    /\ requests = session.iterationCount

\* the second request of a run came 800 ms after the first, which had been
\* accepted, and ended the run
C7_Witness ==
  /\ pc = "finish"
  /\ requests = 2
  /\ response = RateLimitResponse
  /\ replies[1] = QuietReply
  /\ sent = 1
  /\ now - lastOpenAIRequest = NominalLatency + ITERATION_DELAY
  /\ session.iterationCount = 2

\* callback has just been handed a message
Handled == delivered' = delivered + 1

CarriesOwnId(m) == m.parses /\ "robot_id" \in m.has /\ m.robot_id = "arduino_car"

\* C8: a message that carries the robot's own identity never reaches
\* executeCommand, whatever its content, and nothing is published for it.
C8_SelfMessagesIgnored ==
  [][ (Handled /\ CarriesOwnId(msg')) =>
        /\ commandsRun' = commandsRun
        /\ command' = command
        /\ published' = published
        /\ lastStatus' = lastStatus
        /\ pc' = "idle" ]_vars

\* the first message handled came from the robot itself, with a command as
\* content; only the announcement of reconnect has been published
C8_Witness ==
  /\ delivered = 1
  /\ CarriesOwnId(msg)
  /\ "content" \in msg.has
  /\ msg.content = "find the nearest obstacle"
  /\ commandsRun = 0
  /\ published = 1
  /\ lastStatus = "Robot connected and ready to receive commands"
  /\ pc = "idle"

ErrorNotices == {"Error: Invalid JSON format", "Error: No 'content' field in JSON"}

Dropped ==
  /\ commandsRun' = commandsRun
  /\ command' = command
  /\ pc' = "idle"

\* C9 as stated: a message that is not parseable, or is parseable and has no
\* content field, produces exactly one error status notification and is dropped.
C9_MalformedReported ==
  [][ (Handled /\ (~msg'.parses \/ "content" \notin msg'.has)) =>
        /\ published' = published + 1
        /\ lastStatus' \in ErrorNotices
        /\ Dropped ]_vars

\* C9 amended: a message that is not parseable, or is parseable, does not carry
\* the robot's own identity and has no content field, produces exactly one error
\* status notification and is dropped: executeCommand is not invoked for it, and
\* callback is ready for the next message.  The notification is handed to
\* client.publish once; it reaches the topic when that call succeeds, and
\* nothing is published when it fails.
C9_ForeignMalformedReported ==
  [][ (Handled /\ (~msg'.parses \/ (~CarriesOwnId(msg') /\ "content" \notin msg'.has))) =>
        /\ publishOk =>
             /\ published' = published + 1
             /\ lastStatus' = (IF msg'.parses THEN "Error: No 'content' field in JSON"
                               ELSE "Error: Invalid JSON format")
        /\ ~publishOk => published' = published /\ lastStatus' = lastStatus
        /\ Dropped ]_vars

\* after a message without content was reported and dropped, a later message
\* was handled and started a command
C9_Witness ==
  /\ delivered = 2
  /\ commandsRun = 1
  /\ published = 3
  /\ pc \in {"while", "direct"}
  /\ "content" \in msg.has

\* the state updatePlanningSession leaves: the decision of this iteration asked
\* to go on, and its results were judged by evaluateGoalCompletion
Judged ==
  /\ pc \in {"while", "finish"}
  /\ requests > 0
  /\ decision.shouldContinue
  /\ ~decision.objectiveComplete

\* C10 as stated: for an objective with "within" followed by "cm" and results
\* with a "distance:" reading, evaluateGoalCompletion returns true if and only if
\* the first integer after the marker is at most the threshold between "within"
\* and "cm".
C10_ThresholdDecides ==
  LET objective == ToLowerCase(session.objective)
      results == ToLowerCase(executionResults)
  IN  (/\ Judged
       /\ ThresholdApplies(objective)
       /\ HasReadingMarker(results)
       /\ ReadingStart(results) # -1)
      => (session.isComplete <=> ActualDistance(results) <= TargetDistance(objective))

(***************************************************************************)
(* Robot tools                                                             *)
(***************************************************************************)

InRange(samples) == SelectSeq(samples, LAMBDA r : r >= 1 /\ r <= 400)

\* the result text expected of a measurement with these five raw samples
ExpectedDistance(samples) ==
  LET valid == InRange(samples)
  IN  IF valid = <<>> THEN "Distance: Out of range (>400cm or no echo)"
      ELSE "Distance: " \o IntToStr(SumSeq(valid) \div Len(valid)) \o " cm (avg of "
             \o IntToStr(Len(valid)) \o " readings)"

\* C11: get_sonar_distance takes five raw samples, discards every sample that is
\* 0 or less or above 400, and reports the integer mean of the rest together with
\* their number; with no valid sample it reports the out-of-range result.
C11_SonarMeanOfValid ==
  \A k \in 1..Len(executed) :
    LET call == decision.toolCalls[executed[k].index]
        samples == SubSeq(executed[k].pings, 1, 5)
    IN  (pc \in {"tools", "update"} /\ call.tool = "get_sonar_distance")
          => Contains(executionResults,
                      "[" \o IntToStr(executed[k].index) \o "] get_sonar_distance: "
                        \o ExpectedDistance(samples) \o "\n")

\* the samples 10, 0, 12, 401, 11 gave 11 cm from 3 valid readings
C11_Witness ==
  /\ pc = "update"
  /\ Len(executed) = 1
  /\ SubSeq(executed[1].pings, 1, 5) = <<10, 0, 12, 401, 11>>
  /\ executionResults
       = "Iteration tool calls:\n[1] get_sonar_distance: Distance: 11 cm (avg of 3 readings)\n"

(***************************************************************************)
(* Command routing                                                         *)
(***************************************************************************)

\* C12: every instruction that reaches executeCommand is handed to
\* executeIterativePlanning; no command is executed through a separate direct path.
\* While a command is being executed, control is inside the planning loop.
C12_PlanningIsSingleEntry ==
  (commandsRun > 0 /\ pc \notin {"idle", "respond"}) => pc \in PlanningPcs

(***************************************************************************)
(* The return of executeIterativePlanning                                  *)
(***************************************************************************)

\* executeIterativePlanning has returned and callback has not yet answered: the
\* command in hand is the objective of the session
Returned == pc = "respond" /\ session.objective = command

\* C13: executeIterativePlanning always returns a summary that names the
\* iteration count, the elapsed time and the final result text, whether the run
\* ended by success, by an exhausted budget or by a gateway failure; a failure
\* below the loop reaches the caller only as text in that summary.
C13_SummaryAlwaysReturned ==
  Returned =>
    /\ lastResult
         = "=== ITERATIVE PLANNING COMPLETE ===\nObjective: " \o command
             \o "\nIterations: " \o IntToStr(session.iterationCount)
             \o "\nTotal time: " \o IntToStr((now - session.startTime) \div 1000)
             \o " seconds\nFinal result: " \o session.finalResult
             \o "\nExecution history:\n" \o session.executionHistory
    /\ (requests > 0 /\ GatewayFailed(response)) =>
         /\ session.finalResult = decision.reasoning
         /\ decision.reasoning # ""

\* the HTTP request timed out, and the summary carries the diagnostic
C13_Witness ==
  /\ Returned
  /\ requests = 1
  /\ Contains(response.text, "HTTP request failed: -11")
  /\ Contains(lastResult, "Iterations: 1\n")
  /\ Contains(lastResult, "Total time: 10 seconds\n")
  /\ Contains(lastResult, "Final result: " \o decision.reasoning \o "\n")
  /\ decision.reasoning # ""

(***************************************************************************)
(* Validation failures of single actions                                   *)
(***************************************************************************)

\* what an action that fails validation is answered with
FailureText(call) ==
  IF call.tool = "fly"
  THEN "Error: Tool 'fly' not found. Use listTools() to see available tools."
  ELSE IF call.tool = "move_car" /\ call.params = "forward"
  THEN "Error: Forward command requires duration in milliseconds"
  ELSE ""

FailsValidation(call) == FailureText(call) # ""

\* C14: a validation failure of one action (an unknown action name, malformed
\* move_car parameters) yields a descriptive result string for that action and
\* aborts neither the iteration nor the loop: the remaining actions of the
\* decision are still executed in order and the loop goes on to its next step.
C14_ValidationFailureRecovered ==
  (pc \in PlanningPcs /\ requests > 0 /\ decision.numToolCalls > 0) =>
    /\ pc \in {"tools", "update"} =>
         /\ Len(executed) = toolIndex
         /\ \A i \in 1..toolIndex :
              /\ executed[i].index = i
              /\ FailsValidation(decision.toolCalls[i]) =>
                   Contains(executionResults,
                            "[" \o IntToStr(i) \o "] " \o decision.toolCalls[i].tool
                              \o ": " \o FailureText(decision.toolCalls[i]) \o "\n")
    /\ pc = "update" => toolIndex = decision.numToolCalls
    /\ pc \in {"while", "finish"} =>
         /\ Len(executed) = decision.numToolCalls
         /\ (\E i \in 1..decision.numToolCalls :
               FailsValidation(decision.toolCalls[i])) =>
              (pc = "while" /\ ~session.isComplete)

\* an unknown action and a malformed move were answered with their errors, the
\* measurement after them was still taken, and the loop is at its next test
C14_Witness ==
  /\ pc = "while"
  /\ requests = 1
  /\ decision.numToolCalls = 3
  /\ decision.toolCalls[1].tool = "fly"
  /\ decision.toolCalls[2].params = "forward"
  /\ decision.toolCalls[3].tool = "get_sonar_distance"
  /\ Len(executed) = 3
  /\ Contains(session.executionHistory, "[1] fly: Error: Tool 'fly' not found.")
  /\ Contains(session.executionHistory,
              "[2] move_car: Error: Forward command requires duration in milliseconds")
  /\ Contains(session.executionHistory,
              "[3] get_sonar_distance: Distance: 25 cm (avg of 5 readings)")

\* C15: when the loop leaves its while-condition with isComplete still false,
\* isComplete stays false and finalResult is the budget message, "Maximum
\* iterations reached" when iterationCount >= MAX_ITERATIONS and "Time limit
\* reached" otherwise; finalResult is a decision's reasoning or the message of
\* the local evaluation only when isComplete is true.
C15_PolicyTermination ==
  Returned =>
    IF session.isComplete
    THEN session.finalResult
           \in {decision.reasoning, "Objective achieved based on goal evaluation"}
    ELSE /\ session.iterationCount >= 10 =>
              session.finalResult = "Planning stopped: Maximum iterations reached (10)"
         /\ session.iterationCount < 10 =>
              /\ session.finalResult = "Planning stopped: Time limit reached"
              /\ now - session.startTime >= 60000
         /\ session.finalResult # decision.reasoning

\* a run of fewer than ten iterations ended on the time limit, not complete
C15_Witness ==
  /\ Returned
  /\ ~session.isComplete
  /\ session.iterationCount > 0
  /\ session.iterationCount < MAX_ITERATIONS
  /\ Contains(lastResult, "Final result: Planning stopped: Time limit reached\n")

\* the decision of the reasoning call number k of the present run
DecisionOf(k) == parsePlanningResponse(replies[k])

\* C16: in an iteration whose decision has shouldContinue false, or has
\* shouldContinue true and objectiveComplete true, the session becomes complete
\* with finalResult equal to the reasoning of that decision, and the loop makes
\* no further iteration and no further reasoning call.
C16_StopDecisionEndsRun ==
  ((pc \in PlanningPcs \/ Returned) /\ requests > 0) =>
    /\ pc = "decide" =>
         \A k \in 1..requests :
           DecisionOf(k).shouldContinue /\ ~DecisionOf(k).objectiveComplete
    /\ (~decision.shouldContinue \/ decision.objectiveComplete) =>
         /\ pc \in {"finish", "respond"}
         /\ session.isComplete
         /\ session.finalResult = decision.reasoning
         /\ session.iterationCount = requests

\* the third decision said the objective was complete while asking to continue,
\* and the run ended there with its reasoning
C16_Witness ==
  /\ Returned
  /\ requests = 3
  /\ decision.shouldContinue
  /\ decision.objectiveComplete
  /\ session.isComplete
  /\ session.iterationCount = 3
  /\ session.finalResult = decision.reasoning

(***************************************************************************)
(* One command at a time                                                   *)
(***************************************************************************)

\* C17: at most one execution of executeIterativePlanning is active at any
\* time: a command that arrives during a run is not started before that run has
\* returned. From the start of a command to its answer, the message in the hands
\* of callback is the one that started it, and the session is that command's.
C17_OneRunAtATime ==
  pc # "idle" =>
    /\ commandsRun > 0
    /\ commandsRun <= delivered
    /\ msg.parses
    /\ "content" \in msg.has
    /\ Trim(msg.content) = command
    /\ pc \in PlanningPcs => session.objective = command

\* a second command was delivered after the first had been answered, and its
\* run is under way
C17_Witness ==
  /\ delivered = 2
  /\ commandsRun = 2
  /\ pc \in {"decide", "tools", "update"}
  /\ session.objective = command
  /\ session.iterationCount >= 1

(***************************************************************************)
(* The status channel and the control flow                                 *)
(***************************************************************************)

\* the entry of executed for action i of the present decision
ExecutedAt(i) == CHOOSE k \in 1..Len(executed) : executed[k].index = i

RECURSIVE ResultsUpTo(_, _)
\* what executePlanningToolCalls builds for the first n actions of the present
\* decision, with the same readings at the same times, when client.connected()
\* answers connected
ResultsUpTo(n, connected) ==
  IF n = 0 THEN "Iteration tool calls:\n"
  ELSE LET call == decision.toolCalls[n]
           e == executed[ExecutedAt(n)]
       IN  ResultsUpTo(n - 1, connected)
             \o (IF ~call.isValid THEN SkipLine(call)
                 ELSE ResultLine(n - 1, call,
                                 executeTool(call.tool, call.params, e.pings,
                                             wifiConnected, connected, publishOk,
                                             e.at).result))

\* the session after this iteration, had the broker connection been as given
SessionWith(connected) ==
  updatePlanningSession(session, decision, ResultsUpTo(decision.numToolCalls, connected))

\* the results text of the batch is the one rebuilt from the recorded calls
ResultsRebuilt ==
  (pc = "update" /\ decision.numToolCalls > 0) =>
    executionResults = ResultsUpTo(decision.numToolCalls, mqttConnected)

\* C18: a failure to publish on the status channel never changes the control flow
\* of the planning loop: for the same objective, the same reasoning responses and
\* the same sensor readings, the iteration count, the executed actions and
\* finalResult are the same whether the broker is connected or not. At the end
\* of every batch, the session is complete with the connection up exactly when
\* it is complete with the connection down, with the same finalResult.
C18_PublishFailureIsInert ==
  (pc = "update" /\ decision.numToolCalls > 0) =>
    /\ SessionWith(TRUE).isComplete = SessionWith(FALSE).isComplete
    /\ SessionWith(TRUE).finalResult = SessionWith(FALSE).finalResult

(***************************************************************************)
(* What a stopping decision leaves untouched                               *)
(***************************************************************************)

RECURSIVE ContextAfter(_)
\* currentContext once the first k iterations of the present run have been
\* folded into the session
ContextAfter(k) ==
  IF k = 0 THEN "Starting fresh. Objective: " \o command
  ELSE IF DecisionOf(k).nextContext # "" THEN DecisionOf(k).nextContext
  ELSE "Completed iteration " \o IntToStr(k) \o ". " \o ContextAfter(k - 1)

\* the run has ended on the decision of its last reasoning call
StoppedByDecision ==
  /\ pc = "finish" \/ Returned
  /\ requests > 0
  /\ ~decision.shouldContinue \/ decision.objectiveComplete

\* C19: when a decision stops the loop (shouldContinue false or objectiveComplete
\* true), none of the actions of that decision is executed, executionHistory is
\* left as the iterations before it made it, and currentContext is not updated,
\* even when the decision carries accepted actions.
C19_StopDecisionRunsNothing ==
  StoppedByDecision =>
    /\ executed = <<>>
    /\ toolIndex = 0
    /\ Occurrences(session.executionHistory, "--- Iteration ") = requests - 1
    /\ ~Contains(session.executionHistory,
                 "--- Iteration " \o IntToStr(requests) \o " ---\n")
    /\ session.currentContext = ContextAfter(requests - 1)

\* the second decision stopped the loop while carrying an accepted move, and
\* the history holds the first iteration only
C19_Witness ==
  /\ StoppedByDecision
  /\ requests = 2
  /\ decision.numToolCalls = 1
  /\ decision.toolCalls[1].isValid
  /\ decision.toolCalls[1].tool = "move_car"
  /\ executed = <<>>
  /\ Occurrences(session.executionHistory, "--- Iteration ") = 1
  /\ session.currentContext = "Checking for obstacles in front"

(***************************************************************************)
(* The execution history                                                   *)
(***************************************************************************)

IsPrefix(a, b) == Len(a) <= Len(b) /\ SubSeq(b, 1, Len(a)) = a

IsSuffix(a, b) == Len(a) <= Len(b) /\ SubSeq(b, Len(b) - Len(a) + 1, Len(b)) = a

\* the head of the history block of iteration k of the present run
BlockHead(k) ==
  "--- Iteration " \o IntToStr(k) \o " ---\nReasoning: "
  \o DecisionOf(k).reasoning \o "\n"

\* where pattern p starts in s, 0-based
Positions(s, p) == { i \in 0..(Len(s) - Len(p)) : SubSeq(s, i + 1, i + Len(p)) = p }

\* the block headers of h start at starts, and the j-th of them is the header of
\* iteration j, for j = 1..k-1
BlocksInOrder(h, starts, k) ==
  /\ Cardinality(starts) = k - 1
  /\ \A j \in 1..(k - 1) :
       \E p \in starts :
         /\ Cardinality({q \in starts : q < p}) = j - 1
         /\ SubSeq(h, p + 1, p + Len(BlockHead(j))) = BlockHead(j)

\* at the reasoning call of iteration k the history holds one block for each of
\* the iterations 1..k-1, in that order, the last one closed by the raw results
\* of its actions
HistoryAtCall ==
  pc = "decide" =>
    LET k == session.iterationCount
        h == session.executionHistory
    IN  /\ requests = k - 1
        /\ BlocksInOrder(h, Positions(h, "--- Iteration "), k)
        /\ k > 1 => IsSuffix(BlockHead(k - 1) \o executionResults, h)

\* within a run the history only grows at its end, and the update that ends an
\* iteration closes it with the raw results of that iteration
HistoryGrows ==
  /\ commandsRun' = commandsRun =>
       IsPrefix(session.executionHistory, session'.executionHistory)
  /\ (pc = "update" /\ pc' # "update") =>
       session'.executionHistory
         = session.executionHistory
             \o (IF session.executionHistory = "" THEN "" ELSE "\n")
             \o "--- Iteration " \o IntToStr(session.iterationCount) \o " ---\n"
             \o "Reasoning: " \o decision.reasoning \o "\n" \o executionResults

\* C20: executionHistory is append-only and ordered by iteration: every update
\* within a run keeps the previous history as a prefix, and at the reasoning call
\* of iteration k the history holds, in increasing order of iteration, one block
\* with the reasoning and the raw action results of each iteration 1..k-1.
C20_HistoryAppendOnly == []HistoryAtCall /\ [][HistoryGrows]_vars

\* the third reasoning call of a run is about to be made, with the blocks of
\* iterations 1 and 2 in the history
C20_Witness ==
  /\ pc = "decide"
  /\ session.iterationCount = 3
  /\ Occurrences(session.executionHistory, "--- Iteration ") = 2
  /\ IndexOf(session.executionHistory, "--- Iteration 1 ---\n") = 0
  /\ IndexOf(session.executionHistory, "--- Iteration 2 ---\n") > 0

(***************************************************************************)
(* Reasoning requests                                                      *)
(***************************************************************************)

\* C21: exactly one reasoning request is attempted per iteration, and a failed
\* one is never retried within the iteration: throughout a run the number of
\* requests attempted equals iterationCount, the request of the iteration that
\* has just been counted being the one about to be made.
C21_OneRequestPerIteration ==
  (pc \in PlanningPcs \/ Returned) =>
    /\ Len(replies) = session.iterationCount - (IF pc = "decide" THEN 1 ELSE 0)
    /\ sent <= Len(replies)

\* the only request of an iteration failed, and the run ended without another
C21_Witness ==
  /\ Returned
  /\ session.iterationCount = 2
  /\ Len(replies) = 2
  /\ replies[2].code <= 0
  /\ replies[1].code > 0

\* a request goes out on the network in this step
Transmits == sent' = sent + 1

\* each transmission comes at least OPENAI_RATE_LIMIT_MS after the time stamp and
\* moves the stamp to its own time, which lies within the step, and the stamp
\* never goes back
SpacedTransmissions ==
  /\ Transmits => (lastOpenAIRequest' - lastOpenAIRequest >= 1000 /\ lastOpenAIRequest' >= now)
  /\ lastOpenAIRequest' >= lastOpenAIRequest
  /\ lastOpenAIRequest' <= now'

\* C22: any two requests that are transmitted to the reasoning service are
\* issued at least 1000 ms apart, in every interleaving of requests of the
\* planning loop and of direct commands, which share lastOpenAIRequest.
C22_RequestsSpaced == [][SpacedTransmissions]_vars

\* a direct command was answered by the service, and the first request of the
\* planning run that came right after it, less than OPENAI_RATE_LIMIT_MS after
\* the request of the direct command, was refused
C22_Witness ==
  /\ commandsRun = 2
  /\ openaiResult.success
  /\ openaiResult.numToolCalls = 1
  /\ openaiResult.toolCalls[1].confidence = 95
  /\ pc = "finish"
  /\ requests = 1
  /\ sent = 0
  /\ response = RateLimitResponse
  /\ 0 < lastOpenAIRequest
  /\ lastOpenAIRequest < session.startTime
  /\ now - lastOpenAIRequest < OPENAI_RATE_LIMIT_MS

(***************************************************************************)
(* The confidence gate on every path                                       *)
(***************************************************************************)

\* C23: for every action produced by any path (parsePlanningResponse,
\* parseOpenAIResponse, createFallbackResponse) the accepted flag isValid is
\* true if and only if the confidence of the action is above 0.9, so no action
\* with a confidence of 0.9 or less is executed by executeToolCalls or by
\* executePlanningToolCalls.
C23_AcceptedIffConfident ==
  /\ \A i \in 1..decision.numToolCalls :
       decision.toolCalls[i].isValid <=> decision.toolCalls[i].confidence > 90
  /\ \A i \in 1..openaiResult.numToolCalls :
       openaiResult.toolCalls[i].isValid <=> openaiResult.toolCalls[i].confidence > 90
  /\ pc \in {"direct_tools", "respond"} =>
       \A k \in 1..Len(executed) :
         executed[k].index <= openaiResult.numToolCalls =>
           openaiResult.toolCalls[executed[k].index].confidence > 90

(***************************************************************************)
(* The assignment of finalResult                                           *)
(***************************************************************************)

BudgetMessages ==
  { "Planning stopped: Maximum iterations reached (10)",
    "Planning stopped: Time limit reached" }

\* a step of the present run
SameRun == commandsRun' = commandsRun

\* finalResult changes only from its initial value, and only in the step that
\* completes the session or in the budget branch; the step that completes the
\* session leaves the loop; the budget branch leaves a complete session alone;
\* and the function returns with the session complete or a budget message set
FinalResultOnce ==
  /\ (SameRun /\ session'.finalResult # session.finalResult) =>
       /\ session.finalResult = ""
       /\ ~session.isComplete
       /\ \/ session'.isComplete /\ pc \in {"decide", "update"}
          \/ ~session'.isComplete /\ pc = "finish"
  /\ (SameRun /\ ~session.isComplete /\ session'.isComplete) => pc' = "finish"
  /\ (SameRun /\ session.isComplete) =>
       (session'.isComplete /\ session'.finalResult = session.finalResult)
  /\ (pc = "finish" /\ pc' = "respond") =>
       (session'.isComplete \/ session'.finalResult \in BudgetMessages)
  /\ (~SameRun /\ pc' = "while") =>
       (session'.finalResult = "" /\ ~session'.isComplete)

\* C24: during one run session.finalResult is assigned exactly once after its
\* initialisation, at the moment isComplete becomes true or at the forced
\* termination on a budget; no path assigns it twice and none returns without
\* assigning it.
C24_FinalResultAssignedOnce == [][FinalResultOnce]_vars

\* the local evaluation completed the session, and the run returned with its text
C24_Witness ==
  /\ Returned
  /\ session.isComplete
  /\ session.finalResult = "Objective achieved based on goal evaluation"
  /\ decision.shouldContinue
  /\ ~decision.objectiveComplete

(***************************************************************************)
(* Where the local goal evaluation runs                                    *)
(***************************************************************************)

GoalText == "Objective achieved based on goal evaluation"

\* C25: evaluateGoalCompletion is invoked only in an iteration whose decision
\* had shouldContinue true and objectiveComplete false, after the actions of
\* that iteration have run and been appended to the history; the local
\* evaluation can only add a completion and never replaces the finalResult of an
\* iteration that the decision itself ended.
C25_EvaluationAfterActions ==
  /\ pc \in {"tools", "update"} =>
       /\ decision.shouldContinue
       /\ ~decision.objectiveComplete
       /\ ~session.isComplete
       /\ session.finalResult = ""
  /\ pc = "update" => toolIndex = decision.numToolCalls
  /\ ((pc = "finish" \/ Returned) /\ session.finalResult = GoalText) =>
       /\ decision.shouldContinue
       /\ ~decision.objectiveComplete
       /\ toolIndex = decision.numToolCalls
       /\ IsSuffix(executionResults, session.executionHistory)
  /\ ((pc = "finish" \/ Returned) /\ Len(replies) > 0
        /\ (~decision.shouldContinue \/ decision.objectiveComplete)) =>
       session.finalResult = decision.reasoning

\* a reading under the threshold was taken and recorded, and the evaluation that
\* followed completed the session
C25_Witness ==
  /\ pc = "finish"
  /\ session.finalResult = GoalText
  /\ session.isComplete
  /\ Len(executed) = 1
  /\ Contains(executionResults, "Distance: 15 cm")
  /\ IsSuffix(executionResults, session.executionHistory)

(***************************************************************************)
(* Order of the actions of a decision                                      *)
(***************************************************************************)

\* C26: within one decision executeTool is invoked for the accepted actions
\* strictly in the order in which the reasoning service returned them, by
\* increasing index; no action is executed twice and none out of order.
C26_ActionsInOrder ==
  pc \in {"tools", "update"} =>
    /\ \A k \in 1..Len(executed) :
         /\ executed[k].index \in 1..toolIndex
         /\ decision.toolCalls[executed[k].index].confidence > 90
         /\ k > 1 => executed[k - 1].index < executed[k].index
    /\ \A i \in 1..toolIndex :
         decision.toolCalls[i].confidence > 90 =>
           \E k \in 1..Len(executed) : executed[k].index = i

\* of five actions the first, third and fifth were accepted, and they were
\* executed in that order
C26_Witness ==
  /\ pc = "update"
  /\ decision.numToolCalls = 5
  /\ Len(executed) = 3
  /\ executed[1].index = 1
  /\ executed[2].index = 3
  /\ executed[3].index = 5
  /\ executed[1].at < executed[2].at
  /\ executed[2].at < executed[3].at

\* how long the k-th executed action of the present decision kept the loop
DurationOf(k) ==
  LET e == executed[k]
      call == decision.toolCalls[e.index]
  IN  executeTool(call.tool, call.params, e.pings, wifiConnected, mqttConnected,
                  publishOk, e.at).duration

\* C27: between any two consecutively executed actions of one decision the
\* 250 ms settle delay elapses, also when skipped actions lie between them or
\* follow, and no new iteration begins before the whole batch of the previous
\* one has completed and been appended to executionHistory.
C27_SettleDelay ==
  /\ pc \in {"tools", "update"} =>
       /\ \A k \in 2..Len(executed) :
            executed[k].at - executed[k - 1].at >= DurationOf(k - 1) + 250
       /\ (Len(executed) > 0 /\ executed[Len(executed)].index < toolIndex) =>
            now - executed[Len(executed)].at >= DurationOf(Len(executed)) + 250
  /\ (pc \in {"while", "decide"} /\ Len(replies) > 0) =>
       /\ toolIndex = decision.numToolCalls
       /\ IsSuffix(executionResults, session.executionHistory)
       /\ \A k \in 1..Len(executed) :
            executed[k].at + DurationOf(k) <= now
  /\ (pc = "decide" /\ Len(replies) > 0) =>
       \A k \in 1..Len(executed) :
         executed[k].at + DurationOf(k) + 500 <= session.lastIterationTime

\* two accepted measurements with a skipped action between them, the second
\* started a measurement and a settle delay after the first
C27_Witness ==
  /\ pc = "update"
  /\ decision.numToolCalls = 3
  /\ ~decision.toolCalls[2].isValid
  /\ Len(executed) = 2
  /\ executed[1].index = 1
  /\ executed[2].index = 3
  /\ decision.toolCalls[1].tool = "get_sonar_distance"
  /\ executed[2].at - executed[1].at = 500

(***************************************************************************)
(* The size of a decision                                                  *)
(***************************************************************************)

\* C28: a planning decision never holds more than 5 actions: when the reply
\* lists more, the first 5 are kept in their original order and the rest are
\* dropped silently, and the reply is not rejected.
C28_AtMostFiveActions ==
  (pc \in {"tools", "update", "while"} /\ Len(replies) > 0) =>
    LET doc == replies[Len(replies)].doc
        listed == doc.tool_calls
        kept == IF Len(listed) < 5 THEN Len(listed) ELSE 5
    IN  /\ decision.numToolCalls = kept
        /\ Len(decision.toolCalls) = kept
        /\ \A i \in 1..kept :
             /\ decision.toolCalls[i].tool = listed[i].tool
             /\ decision.toolCalls[i].params = listed[i].params
             /\ decision.toolCalls[i].confidence = listed[i].confidence
        /\ decision.shouldContinue = doc.should_continue
        /\ decision.reasoning = doc.reasoning
        /\ toolIndex <= kept
        /\ \A k \in 1..Len(executed) : executed[k].index <= kept
        /\ ~Contains(executionResults, "[6] ")
        /\ pc \in {"update", "while"} => Len(executed) = kept

\* the reply listed seven actions, five of them were executed, and the loop
\* went on
C28_Witness ==
  /\ pc = "while"
  /\ Len(replies) = 1
  /\ Len(replies[1].doc.tool_calls) = 7
  /\ replies[1].doc.tool_calls[5].tool = "move_car"
  /\ replies[1].doc.tool_calls[6].tool = "get_sonar_distance"
  /\ decision.numToolCalls = 5
  /\ Len(executed) = 5
  /\ decision.toolCalls[5].tool = "move_car"
  /\ ~session.isComplete

(***************************************************************************)
(* The motor pins                                                          *)
(***************************************************************************)

\* the pin levels the next action writes if it is an accepted move_car
NextMoveWrites ==
  LET call == decision.toolCalls[toolIndex + 1]
  IN  PinWrites(moveCar(call.params).drive)

NextMoveFails ==
  IsPrefix("Error: ", moveCar(decision.toolCalls[toolIndex + 1].params).result)

\* C29: outside a timed movement the four motor pins are LOW: a successful
\* move_car writes stopWheels last, and a move_car that returns an error (no
\* parameters, no or a non-positive magnitude, an unknown direction) writes no
\* pin at all.
C29_MotorsIdle ==
  /\ pins = PinLevels(LOW, LOW, LOW, LOW)
  /\ (pc = "tools" /\ decision.toolCalls[toolIndex + 1].isValid
        /\ decision.toolCalls[toolIndex + 1].tool = "move_car") =>
       IF NextMoveFails
       THEN NextMoveWrites = << >>
       ELSE /\ NextMoveWrites # << >>
            /\ NextMoveWrites[Len(NextMoveWrites)] = stopWheels

\* a turn by degrees was made, then a move_car without magnitude returned its
\* error, and the pins are LOW
C29_Witness ==
  /\ pc = "update"
  /\ Len(executed) = 2
  /\ decision.toolCalls[1].params = "left 90"
  /\ decision.toolCalls[2].params = "forward"
  /\ executed[2].at - executed[1].at = 600 + TOOL_CALL_DELAY
  /\ Contains(executionResults, "Car turned left 90 degrees")
  /\ Contains(executionResults, "Error: Forward command requires duration in milliseconds")
  /\ pins = stopWheels

(***************************************************************************)
(* The robot's own publications on the command topic                       *)
(***************************************************************************)

\* callback is handed what the robot published last on MQTT_TOPIC
OwnDelivered == Handled /\ published > 0 /\ msg' \in OwnOutput(lastStatus)

NoFeedback ==
  OwnDelivered =>
    /\ CarriesOwnId(msg')
    /\ commandsRun' = commandsRun
    /\ command' = command
    /\ published' = published
    /\ lastStatus' = lastStatus
    /\ pc' = "idle"

\* C30: what sendStatusMessage and sendMqttMessage publish on the command topic
\* carries robot_id "arduino_car"; delivered back to callback it runs no command
\* and causes no further publication.
C30_NoFeedbackLoop == [][NoFeedback]_vars

\* the result message of a command came back with its text as content; no second
\* command ran and nothing was published for it
C30_Witness ==
  /\ pc = "idle"
  /\ delivered = 2
  /\ msg = MqttJson(lastStatus)
  /\ IsPrefix("Command executed: find the nearest obstacle", lastStatus)
  /\ commandsRun = 1
  /\ command = "find the nearest obstacle"

(***************************************************************************)
(* The verdict of the final notification                                   *)
(***************************************************************************)

\* executeIterativePlanning has returned and its last notification went out
FinalNoticeSent == Returned /\ mqttConnected /\ lastStatus = FinalNotice(session, now)

TaggedSuccess ==
  IsPrefix(PartyPopper \o " SUCCESS: Planning completed successfully!", lastStatus)

\* the run ended because the objective was complete: by the decision's flag or
\* by evaluateGoalCompletion
EndedByCompletion ==
  \/ decision.objectiveComplete
  \/ session.finalResult = "Objective achieved based on goal evaluation"

\* C31: the final notification is tagged SUCCESS only for a run that ended by
\* objective completion; a run ended by a failed request, by a decision not to
\* continue that is not complete, or by the budget is never tagged SUCCESS.
C31_SuccessOnlyOnCompletion ==
  (FinalNoticeSent /\ TaggedSuccess) => EndedByCompletion

\* C32: when executeIterativePlanning returns, session.finalResult is a
\* non-empty text that names why the loop ended, whatever the replies were, those
\* without a reasoning field included.
C32_FinalResultNamesCause == Returned => session.finalResult # ""

(***************************************************************************)
(* evaluateGoalCompletion: the "until" and the halt patterns               *)
(***************************************************************************)

MentionsDistance(results) == IndexOf(results, "within") # -1 /\ IndexOf(results, "cm") # -1

AsksToStop(objective) == IndexOf(objective, "stop") # -1 \/ IndexOf(objective, "halt") # -1

\* C33: for an objective with "until" and no threshold, evaluateGoalCompletion
\* returns true if and only if the latest results contain both "within" and
\* "cm"; for an objective that also carries a threshold the "until" pattern is
\* not consulted, the threshold test alone decides.
C33_UntilOnlyWithoutThreshold ==
  LET objective == ToLowerCase(session.objective)
      results == ToLowerCase(executionResults)
  IN  (Judged /\ IndexOf(objective, "until") # -1 /\ ~AsksToStop(objective)) =>
        IF ThresholdApplies(objective)
        THEN session.isComplete <=>
               /\ HasReadingMarker(results)
               /\ ReadingStart(results) # -1
               /\ ActualDistance(results) <= TargetDistance(objective)
        ELSE session.isComplete <=> MentionsDistance(results)

\* updatePlanningSession judges the results of this iteration: the objective
\* asks to stop and has neither a threshold nor "until", or has no pattern at all
HaltDecides ==
  LET objective == ToLowerCase(session.objective)
      context == ToLowerCase(session.currentContext)
      results == ToLowerCase(executionResults)
      plain == ~ThresholdApplies(objective) /\ IndexOf(objective, "until") = -1
  IN  (pc = "update" /\ pc' # "update" /\ plain) =>
        IF AsksToStop(objective)
        THEN session'.isComplete <=>
               (IndexOf(context, "stopped") # -1 \/ IndexOf(results, "stopped") # -1)
        ELSE ~session'.isComplete

\* C34: for an objective with "stop" or "halt" and neither a threshold nor
\* "until", evaluateGoalCompletion returns true if and only if the context as it
\* stands before this iteration's update, or the latest results, contain
\* "stopped"; for an objective with no pattern it returns false.
C34_HaltCondition == [][HaltDecides]_vars

\* the context the service worded in iteration 1 said "stopped"; iteration 1 went
\* on, and iteration 2, whose results do not mention it, was judged achieved
C34_Witness ==
  /\ pc = "finish"
  /\ session.objective = "move forward then stop"
  /\ session.iterationCount = 2
  /\ replies[1] = ContextReply
  /\ session.isComplete
  /\ session.finalResult = "Objective achieved based on goal evaluation"
  /\ ~Contains(executionResults, "topped")

(***************************************************************************)
(* An out-of-range measurement and the threshold                           *)
(***************************************************************************)

\* the only thing the iteration's results hold is one out-of-range measurement
OutOfRangeOnly ==
  executionResults
    = "Iteration tool calls:\n[1] get_sonar_distance: Distance: Out of range (>400cm or no echo)\n"

\* C35: a get_sonar_distance result that reports out of range carries no reading
\* and never makes evaluateGoalCompletion declare a "within N cm" objective
\* achieved, whatever N is.
C35_OutOfRangeNeverAchieves ==
  (Judged /\ ThresholdApplies(ToLowerCase(session.objective)) /\ OutOfRangeOnly)
    => ~session.isComplete

(***************************************************************************)
(* move_car: malformed parameters                                          *)
(***************************************************************************)

\* what is wrong with the parameters of a move_car call, read off the text:
\* nothing given, a direction without magnitude, a magnitude that is not
\* positive, a word that is no direction; "" when nothing is wrong
MoveFault(params) ==
  LET p == Trim(params)
      sp == IndexOf(p, " ")
      word == ToLowerCase(IF sp = -1 THEN p ELSE Substring(p, 0, sp))
      rest == IF sp = -1 THEN "" ELSE Substring(p, sp + 1, Len(p))
  IN  IF p = "" THEN "No movement command provided"
      ELSE IF word = "stop" THEN ""
      ELSE IF word \in {"forward", "backward", "left", "right"}
      THEN IF rest = "" THEN "requires"
           ELSE IF ToInt(rest) <= 0 THEN "must be positive"
           ELSE ""
      ELSE "Unknown command"

\* executeTool runs an accepted move_car whose parameters are malformed
MalformedMove ==
  LET call == decision.toolCalls[toolIndex + 1]
      out == moveCar(call.params)
      last == toolIndex + 1 >= decision.numToolCalls
  IN  (/\ pc = "tools"
       /\ toolIndex' = toolIndex + 1
       /\ call.isValid
       /\ call.tool = "move_car"
       /\ MoveFault(call.params) # "") =>
        /\ IsPrefix("Error: ", out.result)
        /\ Contains(out.result, MoveFault(call.params))
        /\ \A i \in 1..Len(PinWrites(out.drive)) :
             \A j \in 1..4 : PinWrites(out.drive)[i][j] = LOW
        /\ pins' = pins
        /\ now' = now + (IF last THEN 0 ELSE TOOL_CALL_DELAY)

\* C36: move_car returns an error text that names the fault and drives no motor
\* pin HIGH when the parameters are empty, when forward, backward, left or right
\* has no magnitude, when the magnitude is not positive, and when the direction
\* is none of forward, backward, left, right, stop.
C36_MalformedMoveIsInert == [][MalformedMove]_vars

\* a move with magnitude 0 and a move in an unknown direction were both turned
\* away: two error lines, no time spent moving, the pins LOW
C36_Witness ==
  /\ pc = "update"
  /\ Len(executed) = 2
  /\ decision.toolCalls[1].params = "forward 0"
  /\ decision.toolCalls[2].params = "fly 100"
  /\ executionResults
       = "Iteration tool calls:\n[1] move_car: Error: Duration must be positive\n"
         \o "[2] move_car: Error: Unknown command 'fly'. Use: forward/backward/left/right/stop\n"
  /\ executed[2].at - executed[1].at = TOOL_CALL_DELAY
  /\ now = executed[2].at
  /\ pins = PinLevels(LOW, LOW, LOW, LOW)

(***************************************************************************)
(* move_car: turns by degrees and turns by time                            *)
(***************************************************************************)

\* the direction word and the magnitude of the parameters of a move_car call
MoveWord(params) ==
  LET p == Trim(params)
      sp == IndexOf(p, " ")
  IN  ToLowerCase(IF sp = -1 THEN p ELSE Substring(p, 0, sp))

MoveMagnitude(params) ==
  LET p == Trim(params)
      sp == IndexOf(p, " ")
  IN  IF sp = -1 THEN 0 ELSE ToInt(Substring(p, sp + 1, Len(p)))

\* executeTool runs an accepted turn with a positive magnitude V
TurnTiming ==
  LET call == decision.toolCalls[toolIndex + 1]
      word == MoveWord(call.params)
      V == MoveMagnitude(call.params)
      last == toolIndex + 1 >= decision.numToolCalls
      driven == now' - now - (IF last THEN 0 ELSE TOOL_CALL_DELAY)
      said == "[" \o IntToStr(toolIndex + 1) \o "] move_car: Car turned " \o word
              \o (IF V \in {90, 180, 270, 360}
                  THEN " " \o IntToStr(V) \o " degrees\n"
                  ELSE " for " \o IntToStr(V) \o "ms\n")
  IN  (/\ pc = "tools"
       /\ toolIndex' = toolIndex + 1
       /\ call.isValid
       /\ call.tool = "move_car"
       /\ word \in {"left", "right"}
       /\ V > 0) =>
        /\ driven = IF V \in {90, 180, 270, 360} THEN 600 * (V \div 90) ELSE V
        /\ executionResults' = executionResults \o said
        /\ PinWrites(moveCar(call.params).drive)[1]
             = IF word = "left" THEN PinLevels(HIGH, LOW, LOW, HIGH)
               ELSE PinLevels(LOW, HIGH, HIGH, LOW)

\* C37: for move_car "left V" and "right V", a V of 90, 180, 270 or 360 is taken
\* as degrees and the turn lasts 600 * (V / 90) ms; every other positive V is a
\* duration and the turn lasts exactly V ms.
C37_TurnDegreesOrDuration == [][TurnTiming]_vars

\* a turn of 270 degrees took 1800 ms, and the turn "right 45" after it 45 ms
C37_Witness ==
  /\ pc = "update"
  /\ Len(executed) = 2
  /\ decision.toolCalls[1].params = "left 270"
  /\ decision.toolCalls[2].params = "right 45"
  /\ executed[2].at - executed[1].at = 1800 + TOOL_CALL_DELAY
  /\ now - executed[2].at = 45
  /\ executionResults
       = "Iteration tool calls:\n[1] move_car: Car turned left 270 degrees\n"
         \o "[2] move_car: Car turned right for 45ms\n"

(***************************************************************************)
(* The legacy instruction interpreter                                      *)
(***************************************************************************)

RECURSIVE LinesOf(_)
\* the lines of a text, split at its newlines; no line for an empty rest
LinesOf(text) ==
  LET nl == IndexOf(text, "\n")
  IN  IF text = "" THEN <<>>
      ELSE IF nl = -1 THEN <<text>>
      ELSE <<SubSeq(text, 1, nl)>> \o LinesOf(SubSeq(text, nl + 2, Len(text)))

\* the call of parse_and_route a line "command value" stands for
RouteOf(line) ==
  LET sp == IndexOf(line, " ")
  IN  [command |-> SubSeq(line, 1, sp), param |-> ToInt(SubSeq(line, sp + 2, Len(line)))]

ExpectedRoutes(text) ==
  LET lines == LinesOf(text)
  IN  [k \in 1..Len(lines) |-> RouteOf(lines[k])]

TokenizeReturned == lpc = "loop"

\* C38: once setup() has WiFi and asks for the instruction text, tokenize
\* terminates for every instruction text and hands each "command value" line to
\* parse_and_route exactly once, in order, also when the last line has no
\* newline.
C38_TokenizeTerminates ==
  (lpc = "download") ~> (TokenizeReturned /\ routed = ExpectedRoutes(payload))

====
